---- MODULE Spec2Model ----
(***************************************************************************)
(* A model of the belief-tree search engine of tapir: one action node      *)
(* (ActionNode.cpp) with its discrete observation mapping                  *)
(* (discrete_observations.cpp/.hpp) and the child belief nodes it owns,    *)
(* and one discretized action mapping (discretized_actions.hpp).           *)
(*                                                                         *)
(* Q-values are doubles in the source.  Here they are exact integers, and  *)
(* a mean is an exact fraction <<numerator, denominator>>; the discount    *)
(* factor is a fraction over DiscountDen and the child Q-values are drawn  *)
(* from multiples of DiscountDen, so every product the code forms is       *)
(* exact.  -infinity is the fraction <<-1, 0>>.                            *)
(***************************************************************************)
EXTENDS Integers, Sequences, FiniteSets, TLC

(* ------------------------------ bounds -------------------------------- *)

\* Buckets of the observation hash (1: every two observations collide).
HashBuckets == 1

\* Belief nodes that can be allocated (heap addresses 1..MaxNodes).
MaxNodes == 2

\* Bound on every visit / particle / sequence counter (in absolute value).
MaxCount == 2

\* Bound on |totalQValue_| and on the tracked immediate returns.
MaxTotalQ == 4

\* Longest recorded sequence of changeTotalQValue calls on a fresh node.
MaxCalls == 4

\* Bins of the discretized action pool (getNumberOfBins()).
NumberOfBins == 2

\* Longest bin sequence handed to the DiscretizedActionMap constructor.
MaxBinSequence == 3

\* Belief nodes of the tree that received their id before the children of
\* the modelled action node (ids are handed out in order of creation).
EarlierNodes == 9

\* Latest time of a block in a changes file, and the most blocks in a file.
MaxTime == 2

MaxBlocks == 2

\* Most lines in a map file.
MaxMapLines == 2

\* problem.interpolationStepCount, and the side of the map of the paths.
InterpolationStepCount == 2

MapSize == 4

(* --------------------------- value domains ---------------------------- *)

\* The discount factor is DiscountNums/DiscountDen: 1/2 or 1.
DiscountDen == 2

DiscountNums == {1, DiscountDen}

\* Q-values a belief node can report (multiples of DiscountDen).
ChildQValues == {0, DiscountDen}

\* Immediate returns handed to changeTotalQValue.
DeltaQValues == {-1, 0, 1}

\* Count deltas handed to the update methods.
Deltas == {-1, 0, 1}

Null == 0

NodeIds == 1..MaxNodes

\* -std::numeric_limits<double>::infinity()
NegInf == <<-1, 0>>

\* An observation object: v is what equals()/hash() look at, x is content
\* they ignore (two objects that are equal without being identical).
Observations == [v : {0, 1}, x : {0, 1}]

\* One object of each observation value.
CanonicalObservations == {o \in Observations : o.x = 0}

Bins == 0..(NumberOfBins - 1)

\* An action object of the discretized variant: bin is the bin number it
\* reports, id tells apart the different actions of one bin.
Actions == [bin : Bins, id : {0, 1}]

\* The nullptr that getNextActionToTry returns.
NullAction == [bin |-> -1, id |-> -1]

\* The vectors createBinSequence can hand to the constructor.
BinSequences == UNION {[1..n -> Bins] : n \in 0..MaxBinSequence}

(* ------------------------------ state --------------------------------- *)

VARIABLES
    actionNode,       \* [nParticles_, totalQValue_, meanQValue_] of the ActionNode
    childMap_,        \* DiscreteObservationMap::childMap_: a set of entries
    totalVisitCount_, \* DiscreteObservationMap::totalVisitCount_
    beliefs,          \* the BeliefNode at each address, and whether it is alive
    allocated,        \* number of BeliefNodes allocated so far
    discount,         \* numerator of the model's discount factor
    immediateQ,       \* history: immediate returns counted in totalQValue_
    calls,            \* history: the arguments of the changeTotalQValue calls
    last,             \* history: the last call, its arguments and its outcome
    entries_,         \* DiscretizedActionMap::entries_, one entry per bin
    nChildren_,       \* DiscretizedActionMap::nChildren_
    numberOfVisitedEntries_, \* DiscretizedActionMap::numberOfVisitedEntries_
    binSequence_,     \* DiscretizedActionMap::binSequence_
    actionTotalVisitCount_,  \* DiscretizedActionMap::totalVisitCount_
    initialBinSequence, \* history: the vector the constructor was given
    tried,            \* history: the actions getNextActionToTry returned
    lastAction,       \* history: the last call on the action mapping
    entries,          \* ContinuousActionMap::entries (the container)
    nChildren,        \* ContinuousActionMap::nChildren
    numberOfVisitedEntries, \* ContinuousActionMap::numberOfVisitedEntries
    totalVisitCount,  \* ContinuousActionMap::totalVisitCount
    createdNodes,     \* action nodes the continuous mapping has allocated
    os,               \* the text saveObservationMapping wrote, line by line
    loaded,           \* the mapping loadObservationMapping built from it
    mapArea_,         \* Nav2DModel::mapArea_
    startAreas_,      \* Nav2DModel::startAreas_ (AreasById: id -> rectangle)
    totalStartArea_,  \* Nav2DModel::totalStartArea_
    goalAreas_,       \* Nav2DModel::goalAreas_
    obstacles_,       \* Nav2DModel::obstacles_
    observationAreas_, \* Nav2DModel::observationAreas_
    changes_,         \* Nav2DModel::changes_ (time -> the changes of that time)
    timeStepLength_,  \* Nav2DModel::timeStepLength_
    statePool,        \* the change flags of the states stored in the StatePool
    file,             \* the map file or changes file that is read
    state,            \* the Nav2DState the agent is in
    speedErrorType_,  \* Nav2DModel::speedErrorType_
    speedErrorSD_,    \* Nav2DModel::speedErrorSD_
    rotationErrorType_, \* Nav2DModel::rotationErrorType_
    rotationErrorSD_, \* Nav2DModel::rotationErrorSD_
    navLast           \* history: the last call on the model and its outcome

nodeVars == <<actionNode, childMap_, totalVisitCount_, beliefs, allocated,
              discount, immediateQ, calls, last>>

actionVars == <<entries_, nChildren_, numberOfVisitedEntries_, binSequence_,
                actionTotalVisitCount_, initialBinSequence, tried, lastAction>>

continuousVars == <<entries, nChildren, numberOfVisitedEntries,
                    totalVisitCount, createdNodes>>

serializerVars == <<os, loaded>>

errorVars == <<speedErrorType_, speedErrorSD_, rotationErrorType_,
               rotationErrorSD_>>

navVars == <<mapArea_, startAreas_, totalStartArea_, goalAreas_, obstacles_,
             observationAreas_, changes_, timeStepLength_, statePool, file,
             state, errorVars,
             navLast>>

\* What the calls on one of the objects leave alone.
exceptNode == <<actionVars, continuousVars, serializerVars, navVars>>

exceptActions == <<nodeVars, continuousVars, serializerVars, navVars>>

exceptContinuous == <<nodeVars, actionVars, serializerVars, navVars>>

exceptSerializer == <<nodeVars, actionVars, continuousVars, navVars>>

exceptNav == <<nodeVars, actionVars, continuousVars, serializerVars>>

vars == <<nodeVars, actionVars, continuousVars, serializerVars, navVars>>

(* ------------------- text streams (<ostream>, <istream>) -------------- *)

\* A string is a sequence of characters, a character a string of length 1.
Digits == <<"0", "1", "2", "3", "4", "5", "6", "7", "8", "9">>

DigitValue(c) == (CHOOSE d \in 1..10 : Digits[d] = c) - 1

IsDigit(c) == \E d \in 1..10 : Digits[d] = c

IsSpace(c) == c \in {" ", "\t", "\n"}

FormatLastDigit(n) == <<Digits[(n % 10) + 1]>>

RECURSIVE FormatNat(_)
FormatNat(n) ==
    IF n < 10 THEN <<Digits[n + 1]>>
    ELSE Append(FormatNat(n \div 10), Digits[(n % 10) + 1])

\* os << n for a long
FormatLong(n) == IF n < 0 THEN <<"-">> \o FormatNat(-n) ELSE FormatNat(n)

\* The longest prefix of s whose characters all satisfy / all fail IsSpace,
\* or are all digits.
SpacePrefix(s) ==
    CHOOSE n \in 0..Len(s) :
        /\ \A i \in 1..n : IsSpace(s[i])
        /\ n < Len(s) => ~IsSpace(s[n + 1])

WordPrefix(s) ==
    CHOOSE n \in 0..Len(s) :
        /\ \A i \in 1..n : ~IsSpace(s[i])
        /\ n < Len(s) => IsSpace(s[n + 1])

DigitPrefix(s) ==
    CHOOSE n \in 0..Len(s) :
        /\ \A i \in 1..n : IsDigit(s[i])
        /\ n < Len(s) => ~IsDigit(s[n + 1])

Drop(s, n) == SubSeq(s, n + 1, Len(s))

SkipSpaces(s) == Drop(s, SpacePrefix(s))

RECURSIVE ParseNat(_)
ParseNat(s) ==
    IF s = <<>> THEN 0
    ELSE 10 * ParseNat(SubSeq(s, 1, Len(s) - 1)) + DigitValue(s[Len(s)])

\* is >> tmpStr for a std::string: leading whitespace is skipped, the word
\* runs up to the next whitespace.
ReadWord(s) ==
    LET t == SkipSpaces(s)
        n == WordPrefix(t)
    IN  [value |-> SubSeq(t, 1, n), rest |-> Drop(t, n)]

\* is >> n for a long: whitespace, an optional sign, digits; without a digit
\* the extraction fails, n is 0 and the stream reads nothing more.
ReadLong(s) ==
    LET t == SkipSpaces(s)
        negative == t # <<>> /\ t[1] = "-"
        u == IF negative THEN Drop(t, 1) ELSE t
        n == DigitPrefix(u)
        magnitude == ParseNat(SubSeq(u, 1, n))
    IN  IF n = 0 THEN [value |-> 0, rest |-> <<>>]
        ELSE [value |-> IF negative THEN -magnitude ELSE magnitude,
              rest |-> Drop(u, n)]

\* std::getline(is, tmpStr, delim): up to the delimiter, which is consumed.
GetLine(s, delim) ==
    LET n == CHOOSE k \in 0..Len(s) :
                 /\ \A i \in 1..k : s[i] # delim
                 /\ k < Len(s) => s[k + 1] = delim
    IN  [value |-> SubSeq(s, 1, n), rest |-> Drop(s, n + 1)]

\* The order of the characters that occur in a saved mapping (their codes).
CharCode(c) ==
    CASE c = "\t" -> 9
      [] c = "\n" -> 10
      [] c = " " -> 32
      [] c = "-" -> 45
      [] IsDigit(c) -> 48 + DigitValue(c)
      [] c = ";" -> 59
      [] c = ">" -> 62
      [] c = "D" -> 68
      [] c = "E" -> 69
      [] c = "N" -> 78
      [] c = "O" -> 79
      [] c = "i" -> 105
      [] c = "s" -> 115
      [] c = "t" -> 116
      [] c = "v" -> 118

\* operator< of std::string
RECURSIVE StringLess(_, _)
StringLess(a, b) ==
    IF b = <<>> THEN FALSE
    ELSE IF a = <<>> THEN TRUE
    ELSE IF a[1] # b[1] THEN CharCode(a[1]) < CharCode(b[1])
    ELSE StringLess(Tail(a), Tail(b))

\* std::sort of the lines
RECURSIVE Sort(_)
Sort(lines) ==
    IF lines = {} THEN <<>>
    ELSE LET first == CHOOSE l \in lines :
                         \A m \in lines \ {l} : StringLess(l, m)
         IN  <<first>> \o Sort(lines \ {first})

(* ----------------------------- arithmetic ----------------------------- *)

Abs(x) == IF x < 0 THEN -x ELSE x

RECURSIVE Gcd(_, _)
Gcd(a, b) == IF b = 0 THEN a ELSE Gcd(b, a % b)

\* The quotient a / b of a double division with b > 0, kept exact.
Quotient(a, b) ==
    LET g == Gcd(Abs(a), b) IN <<a \div g, b \div g>>

\* discountFactor * q for the discount num/DiscountDen.
Discounted(num, q) == (num * q) \div DiscountDen

(* -------------------- Observation (hash / equals) --------------------- *)

\* Observation::equals: compares the observed value.
equals(o1, o2) == o1.v = o2.v

\* Observation::hash: consistent with equals; values that differ by a
\* multiple of HashBuckets collide.
hash(o) == o.v % HashBuckets

\* Observation::copy: a new object with the same contents.
copy(o) == [v |-> o.v, x |-> o.x]

\* A comparison of the key objects themselves, for contrast.
SameKeyByIdentity(k, o) == k = o

\* The key comparison of ChildMap (HashContents, then EqualContents).
SameKey(k, o) == hash(k) = hash(o) /\ equals(k, o)

(* ------------------------- BeliefNode (child) ------------------------- *)

\* A BeliefNode as the action node reads it.
NewBelief ==
    [alive |-> TRUE, nParticles |-> 0, numberOfStartingSequences_ |-> 0,
     numberOfEndingSequences_ |-> 0, qValue |-> 0]

\* An address that holds no node (never allocated, or destroyed).
NoBelief ==
    [alive |-> FALSE, nParticles |-> 0, numberOfStartingSequences_ |-> 0,
     numberOfEndingSequences_ |-> 0, qValue |-> 0]

\* newSequenceCount of updateSequenceCount.
SequenceCount(b) ==
    b.nParticles - b.numberOfStartingSequences_ + b.numberOfEndingSequences_

(* ----------------------------- ActionNode ----------------------------- *)

\* ActionNode::ActionNode
NewActionNode ==
    [nParticles_ |-> 0, totalQValue_ |-> 0, meanQValue_ |-> NegInf]

recalculateQValueKeepsMean(an) ==
    IF an.nParticles_ > 0
    THEN an
    ELSE [an EXCEPT !.totalQValue_ = 0, !.meanQValue_ = NegInf]

\* recalculateQValue as it would be without the reset of totalQValue_.
recalculateQValueKeepsTotal(an) ==
    IF an.nParticles_ > 0
    THEN [an EXCEPT !.meanQValue_ = Quotient(an.totalQValue_, an.nParticles_)]
    ELSE [an EXCEPT !.meanQValue_ = NegInf]

\* ActionNode::recalculateQValue
recalculateQValue(an) ==
    IF an.nParticles_ > 0
    THEN [an EXCEPT !.meanQValue_ = Quotient(an.totalQValue_, an.nParticles_)]
    ELSE [an EXCEPT !.totalQValue_ = 0, !.meanQValue_ = NegInf]

changeTotalQValueDropsCount(an, deltaQ, deltaNParticles) ==
    recalculateQValue([an EXCEPT !.totalQValue_ = @ + deltaQ])

\* ActionNode::changeTotalQValue
changeTotalQValue(an, deltaQ, deltaNParticles) ==
    recalculateQValue([an EXCEPT !.totalQValue_ = @ + deltaQ,
                                 !.nParticles_ = @ + deltaNParticles])

\* The arithmetic of ActionNode::updateSequenceCount, given the sequence
\* count of the child and its Q-value before and after its recalculation.
sequenceUpdateStaleChildQ(an, newSequenceCount, oldChildQ, newChildQ, discountNum, deltaNParticles) ==
    LET oldSequenceCount == newSequenceCount - deltaNParticles
        t1 == IF oldSequenceCount # 0
              THEN an.totalQValue_
                     - oldSequenceCount * Discounted(discountNum, oldChildQ)
              ELSE an.totalQValue_
        t2 == IF newSequenceCount # 0
              THEN t1 + newSequenceCount * Discounted(discountNum, oldChildQ)
              ELSE t1
    IN  recalculateQValue([an EXCEPT !.totalQValue_ = t2,
                                     !.nParticles_ = @ + deltaNParticles])

sequenceUpdateNoDiscount(an, newSequenceCount, oldChildQ, newChildQ, discountNum, deltaNParticles) ==
    LET oldSequenceCount == newSequenceCount - deltaNParticles
        t1 == IF oldSequenceCount # 0
              THEN an.totalQValue_ - oldSequenceCount * oldChildQ
              ELSE an.totalQValue_
        t2 == IF newSequenceCount # 0
              THEN t1 + newSequenceCount * newChildQ
              ELSE t1
    IN  recalculateQValue([an EXCEPT !.totalQValue_ = t2,
                                     !.nParticles_ = @ + deltaNParticles])

sequenceUpdateKeepsOldShare(an, newSequenceCount, oldChildQ, newChildQ, discountNum, deltaNParticles) ==
    LET t2 == IF newSequenceCount # 0
              THEN an.totalQValue_
                     + newSequenceCount * Discounted(discountNum, newChildQ)
              ELSE an.totalQValue_
    IN  recalculateQValue([an EXCEPT !.totalQValue_ = t2,
                                     !.nParticles_ = @ + deltaNParticles])

sequenceUpdateUndiscountedOld(an, newSequenceCount, oldChildQ, newChildQ, discountNum, deltaNParticles) ==
    LET oldSequenceCount == newSequenceCount - deltaNParticles
        t1 == IF oldSequenceCount # 0
              THEN an.totalQValue_ - oldSequenceCount * oldChildQ
              ELSE an.totalQValue_
        t2 == IF newSequenceCount # 0
              THEN t1 + newSequenceCount * Discounted(discountNum, newChildQ)
              ELSE t1
    IN  recalculateQValue([an EXCEPT !.totalQValue_ = t2,
                                     !.nParticles_ = @ + deltaNParticles])

sequenceUpdate(an, newSequenceCount, oldChildQ, newChildQ, discountNum, deltaNParticles) ==
    LET oldSequenceCount == newSequenceCount - deltaNParticles
        t1 == IF oldSequenceCount # 0
              THEN an.totalQValue_
                     - oldSequenceCount * Discounted(discountNum, oldChildQ)
              ELSE an.totalQValue_
        t2 == IF newSequenceCount # 0
              THEN t1 + newSequenceCount * Discounted(discountNum, newChildQ)
              ELSE t1
    IN  recalculateQValue([an EXCEPT !.totalQValue_ = t2,
                                     !.nParticles_ = @ + deltaNParticles])

(* ----------------------- DiscreteObservationMap ----------------------- *)

\* DiscreteObservationMapEntry, default-constructed, under a key.
NewEntry(key) == [key |-> key, childNode |-> Null, visitCount |-> 0]

HasEntry(map, obs) == \E e \in map : SameKey(e.key, obs)

\* childMap_.at(obs): the entry (defined when HasEntry).
EntryAt(map, obs) == CHOOSE e \in map : SameKey(e.key, obs)

\* DiscreteObservationMap::getBelief: at() throws out_of_range for a missing
\* key, which is caught and answered with nullptr.
getBelief(map, obs) ==
    IF HasEntry(map, copy(obs)) THEN EntryAt(map, copy(obs)).childNode ELSE Null

getChildWithoutLookup(map, obs) == Null

\* ActionNode::getChild
getChild(map, obs) == getBelief(map, obs)

\* DiscreteObservationMap::getNChildren
getNChildren(map) == Cardinality(map)

\* The map after DiscreteObservationMap::createBelief(obs) has built the node
\* at address `fresh`: emplace inserts only when no equal key is present.
createBeliefMap(map, obs, fresh) ==
    IF HasEntry(map, copy(obs))
    THEN map
    ELSE map \cup {[NewEntry(copy(obs)) EXCEPT !.childNode = fresh]}

\* updateVisitCount as it would be with "=" in place of "+=".
updateVisitCountMapAssigns(map, obs, deltaNVisits) ==
    LET m == IF HasEntry(map, copy(obs)) THEN map
             ELSE map \cup {NewEntry(copy(obs))}
    IN  {IF SameKey(e.key, copy(obs))
           THEN [e EXCEPT !.visitCount = deltaNVisits] ELSE e : e \in m}

\* childMap_[obs].visitCount += deltaNVisits: operator[] default-constructs
\* the entry of a missing key.
updateVisitCountMap(map, obs, deltaNVisits) ==
    LET m == IF HasEntry(map, copy(obs)) THEN map
             ELSE map \cup {NewEntry(copy(obs))}
    IN  {IF SameKey(e.key, copy(obs))
           THEN [e EXCEPT !.visitCount = @ + deltaNVisits] ELSE e : e \in m}

\* DiscreteObservationMap::getVisitCount: defined when the key is present
\* (at() throws std::out_of_range otherwise, and nothing catches it).
getVisitCount(map, obs) == EntryAt(map, copy(obs)).visitCount

RECURSIVE SumVisitCounts(_)
SumVisitCounts(map) ==
    IF map = {} THEN 0
    ELSE LET e == CHOOSE e \in map : TRUE
         IN  e.visitCount + SumVisitCounts(map \ {e})

(* ------------------------------ Init ---------------------------------- *)

\* The record kept of the last call: which method, on which observation,
\* what it returned and how it ended.
NoCall ==
    [op |-> "none", obs |-> Null, delta |-> 0, ret |-> Null,
     added |-> FALSE, err |-> "none"]

Called(op, obs) == [NoCall EXCEPT !.op = op, !.obs = obs]

(* ---------------- DiscretizedActionMap: data and methods -------------- *)

PlainVector(seq) == seq

\* abt::LinkedHashSet<long> built from a vector: insertion order, a value
\* that is already present is not added again.
RECURSIVE LinkedHashSet(_)
LinkedHashSet(seq) ==
    IF seq = <<>> THEN <<>>
    ELSE LET front == LinkedHashSet(SubSeq(seq, 1, Len(seq) - 1))
             x == seq[Len(seq)]
         IN  IF \E i \in 1..Len(front) : front[i] = x
             THEN front ELSE Append(front, x)

\* The defaults of DiscretizedActionMapEntry.
NewActionEntry ==
    [binNumber_ |-> -1, childNode_ |-> Null, visitCount_ |-> 0,
     totalQValue_ |-> 0, meanQValue_ |-> <<0, 1>>, isLegal_ |-> FALSE]

getBinNumberPerAction(action) == (action.bin + action.id) % NumberOfBins

\* The bin number an action reports.
getBinNumber(action) == action.bin

\* DiscretizedActionMap::getEntry(action): the entry, named by its index.
getEntry(action) == getBinNumber(action)

\* DiscretizedActionMap::getActionNode(action)
getActionNode(entryVector, action) == entryVector[getBinNumber(action)].childNode_

\* DiscretizedActionMapEntry::updateValue(deltaNVisits, deltaTotalQ)
updateValue(entry, deltaNVisits, deltaTotalQ) ==
    LET n == entry.visitCount_ + deltaNVisits
        q == entry.totalQValue_ + deltaTotalQ
    IN  [entry EXCEPT !.visitCount_ = n, !.totalQValue_ = q,
                      !.meanQValue_ = IF n > 0 THEN Quotient(q, n) ELSE NegInf]

NoActionCall ==
    [op |-> "none", action |-> NullAction, node |-> Null, entry |-> -1,
     visits |-> 0]

\* DiscretizedActionMap::DiscretizedActionMap(owner, pool, binSequence)
ActionMapInit(binSequence) ==
    /\ entries_ = [b \in Bins |-> [NewActionEntry EXCEPT !.binNumber_ = b]]
    /\ nChildren_ = 0
    /\ numberOfVisitedEntries_ = 0
    /\ binSequence_ = LinkedHashSet(binSequence)
    /\ actionTotalVisitCount_ = 0
    /\ initialBinSequence = binSequence
    /\ tried = <<>>
    /\ lastAction = NoActionCall

(* ----------------- ContinuousActionMap: data and methods --------------- *)

\* The construction data of the continuous actions (the container's keys).
ConstructionData == {0, 1}

\* ContinuousActionMapEntry(map, constructionData, isLegal = false)
NewContinuousEntry ==
    [childNode |-> Null, visitCount_ |-> 0, totalQValue_ |-> 0,
     meanQValue_ |-> <<0, 1>>, isLegal_ |-> FALSE]

\* ContinuousActionContainer::getEntriesWithChildren()
getEntriesWithChildren(container) ==
    {key \in DOMAIN container : container[key].childNode # Null}

\* ContinuousActionContainer::getEntriesWithNonzeroVisitCount(): an illegal
\* entry is reported by a warning and pushed like the others.
getEntriesWithNonzeroVisitCount(container) ==
    {key \in DOMAIN container : container[key].visitCount_ > 0}

\* ContinuousActionMap::getVisitedEntries()
getVisitedEntries(container) == getEntriesWithNonzeroVisitCount(container)

\* ContinuousActionMapEntry::update(deltaNVisits, deltaTotalQ)
update(entry, deltaNVisits, deltaTotalQ) ==
    LET n == entry.visitCount_ + deltaNVisits
        q == entry.totalQValue_ + deltaTotalQ
    IN  [entry EXCEPT !.visitCount_ = n, !.totalQValue_ = q,
                      !.meanQValue_ = IF n > 0 THEN Quotient(q, n) ELSE NegInf]

deleteChildKeepsEntry(container, key) ==
    [container EXCEPT ![key].childNode = Null]

\* ContinuousActionMap::deleteChild(entry): the child is destroyed and the
\* entry leaves the container.
deleteChild(container, key) ==
    [k \in DOMAIN container \ {key} |-> container[k]]

\* ContinuousActionMap::ContinuousActionMap(owner, pool)
ContinuousMapInit ==
    /\ entries = <<>>
    /\ nChildren = 0
    /\ numberOfVisitedEntries = 0
    /\ totalVisitCount = 0
    /\ createdNodes = 0

(* ----------------- DiscreteObservationTextSerializer ------------------ *)

\* BeliefNode::getId() of the node at an address.
getId(node) == EarlierNodes + node

\* Serializer::saveObservation / loadObservation of the problem: the value
\* of the observation is written as a number and read back.
saveObservation(obs) == FormatLong(obs.v)

loadObservation(entryStream) ==
    LET r == ReadLong(entryStream)
    IN  [value |-> [v |-> r.value, x |-> 0], rest |-> r.rest]

\* DiscreteObservationTextSerializer::saveObservationMapping(map, os): the
\* header line, the sorted entry lines, the closing line.
saveObservationMapping(map, total) ==
    LET header == FormatLong(getNChildren(map))
                    \o <<" ", "o", "b", "s", "e", "r", "v", "a", "t", "i", "o", "n", " ", "c", "h", "i", "l", "d", "r", "e", "n", ";", " ">>
                    \o FormatLong(total) \o <<" ", "v", "i", "s", "i", "t", "s", " ", "{", "\n">>
        line(e) == <<"\t">> \o saveObservation(e.key)
                    \o <<" ", "-", ">", " ", "N", "O", "D", "E", " ">> \o FormatLong(getId(e.childNode))
                    \o <<";", " ">> \o FormatLong(e.visitCount)
                    \o <<" ", "v", "i", "s", "i", "t", "s", "\n">>
    IN  <<header>> \o Sort({line(e) : e \in map}) \o <<<<"}", "\n">>>>

\* One pass of the loop of loadObservationMapping over an entry line.
loadEntry(map, line, fresh) ==
    LET entryStream == GetLine(line, "\n").value
        obs == loadObservation(entryStream)
        arrow == ReadWord(obs.rest)
        node == ReadWord(arrow.rest)
        idText == GetLine(node.rest, ";")
        childId == ReadLong(idText.value).value
        visitCount == ReadLong(idText.rest).value
        created == createBeliefMap(map.childMap_, obs.value, fresh)
        present == IF HasEntry(created, copy(obs.value)) THEN created
                   ELSE created \cup {NewEntry(copy(obs.value))}
        counted == {IF SameKey(e.key, copy(obs.value))
                    THEN [e EXCEPT !.visitCount = visitCount] ELSE e :
                    e \in present}
    IN  [map EXCEPT !.childMap_ = counted,
                    !.setNode = @ @@ (fresh :> childId)]

\* The loop of loadObservationMapping: entry line i is line i + 1 of the
\* text, and its node is the i-th node the new mapping allocates.
RECURSIVE loadEntries(_, _, _, _)
loadEntries(map, lines, i, count) ==
    IF i > count THEN map
    ELSE loadEntries(loadEntry(map, lines[i + 1], i), lines, i + 1, count)

\* DiscreteObservationTextSerializer::loadObservationMapping(is)
loadObservationMapping(lines) ==
    LET totalsStream == GetLine(lines[1], "\n").value
        count == ReadLong(totalsStream)
        word1 == ReadWord(count.rest)
        word2 == ReadWord(word1.rest)
        total == ReadLong(word2.rest)
        empty == [childMap_ |-> {}, totalVisitCount_ |-> total.value,
                  setNode |-> <<>>]
    IN  loadEntries(empty, lines, 1, count.value)

NothingLoaded == [childMap_ |-> {}, totalVisitCount_ |-> 0, setNode |-> <<>>]

SerializerInit ==
    /\ os = <<>>
    /\ loaded = NothingLoaded

(* ------------------------ Nav2DModel: the data ------------------------ *)

\* geometry::Rectangle2D with integer corners; the default rectangle is
\* the empty one at the origin.
Rectangle(x0, y0, x1, y1) == [x0 |-> x0, y0 |-> y0, x1 |-> x1, y1 |-> y1]

DefaultRectangle == Rectangle(0, 0, 0, 0)

\* Rectangle2D::contains(point)
contains(rect, point) ==
    /\ rect.x0 <= point.x /\ point.x <= rect.x1
    /\ rect.y0 <= point.y /\ point.y <= rect.y1

\* Rectangle2D::getArea()
getArea(rect) == (rect.x1 - rect.x0) * (rect.y1 - rect.y0)

\* Nav2DModel::parseAreaType(text)
parseAreaType(text) ==
    CASE text = "World" -> "WORLD"
      [] text = "Start" -> "START"
      [] text = "Observation" -> "OBSERVATION"
      [] text = "Goal" -> "GOAL"
      [] text = "Obstacle" -> "OBSTACLE"
      [] text = "Empty" -> "EMPTY"
      [] text = "OOB" -> "OUT_OF_BOUNDS"
      [] OTHER -> "EMPTY"

\* The regions that the changes of a changes file add.
Regions == {Rectangle(0, 0, 1, 1), Rectangle(1, 1, 2, 2)}

\* A change line "<operation> <TypeName> <id> <Rectangle>".
ChangeLines ==
    [operation : {"ADD", "REMOVE"}, type : {"Obstacle", "Observation"},
     id : {1}, area : Regions]

\* The blocks of two change lines: one line about an obstacle in the first
\* region and one about an observation area in the second, either first.
TwoLines ==
    {ls \in {<<l1, l2>> : l1, l2 \in ChangeLines} :
           {[type |-> ls[i].type, area |-> ls[i].area] : i \in 1..2}
             = {[type |-> "Obstacle", area |-> Rectangle(0, 0, 1, 1)],
                [type |-> "Observation", area |-> Rectangle(1, 1, 2, 2)]}}

\* A block of a changes file: the line "t <time> n <count>" and the count
\* change lines that follow it.
Blocks ==
    [time : 1..MaxTime,
     lines : {<<>>} \cup {<<l>> : l \in ChangeLines}
             \cup TwoLines]

ChangeFiles == UNION {[1..n -> Blocks] : n \in 0..MaxBlocks}

\* The Nav2DChange read from a change line.
Nav2DChange(l) ==
    [operation |-> l.operation, type |-> parseAreaType(l.type), id |-> l.id,
     area |-> l.area]

\* The lines of a changes file: for each block the header line
\* "t <time> n <count>" and then its change lines.
RECURSIVE FileLines(_)
FileLines(blocks) ==
    IF blocks = <<>> THEN <<>>
    ELSE FileLines(SubSeq(blocks, 1, Len(blocks) - 1))
         \o <<[operation |-> "t", time |-> blocks[Len(blocks)].time,
               n |-> Len(blocks[Len(blocks)].lines)]>>
         \o blocks[Len(blocks)].lines

\* "sstr >> tmpStr >> time >> tmpStr >> nChanges" on a line. On a line
\* that is not a header the extraction of time fails and stores 0; the
\* files of the model only have headers where headers are read.
readHeader(line) ==
    IF "time" \in DOMAIN line THEN [time |-> line.time, nChanges |-> line.n]
    ELSE [time |-> 0, nChanges |-> 0]

skipLineKeepsPosition(pos) == pos

\* The line after one whose operation is not ADD: getline has consumed the
\* skipped line.
skipLine(pos) == pos + 1

\* The inner loop of loadChanges from iteration i on, the next line of the
\* file being lines[pos]: a line with operation ADD is pushed to
\* changes_[time], any other is skipped and counted. At the end of the
\* file getline fails and leaves the line it read last.
RECURSIVE readChanges(_, _, _, _, _)
readChanges(lines, pos, i, nChanges, stored) ==
    IF i >= nChanges THEN [stored |-> stored, pos |-> pos]
    ELSE LET line == IF pos <= Len(lines) THEN lines[pos]
                     ELSE lines[Len(lines)]
         IN  IF line.operation # "ADD"
             THEN readChanges(lines, skipLine(pos), i + 1, nChanges, stored)
             ELSE readChanges(lines, pos + 1, i + 1, nChanges,
                              Append(stored, Nav2DChange(line)))

\* The outer loop of loadChanges from line pos on: a header is read,
\* changes_[time] is set to the changes read after it and time is pushed to
\* changeTimes.
RECURSIVE loadChangeLines(_, _, _, _)
loadChangeLines(changes, changeTimes, lines, pos) ==
    IF pos > Len(lines)
    THEN [changes_ |-> changes, changeTimes |-> changeTimes]
    ELSE LET header == readHeader(lines[pos])
             read == readChanges(lines, pos + 1, 0, header.nChanges, <<>>)
         IN  loadChangeLines(
                 [t \in DOMAIN changes \cup {header.time} |->
                     IF t = header.time THEN read.stored ELSE changes[t]],
                 Append(changeTimes, header.time), lines, read.pos)

\* Nav2DModel::loadChanges(changeFilename) on the file made of the blocks.
loadChanges(changes, blocks) ==
    loadChangeLines(changes, <<>>, FileLines(blocks), 1)

\* Directions are counted in the unit in which the direction of every
\* interpolation step of a path is an integer: a quarter revolution (0.25)
\* is InterpolationStepCount units.
Quarter == InterpolationStepCount

\* Directions of a Nav2DState: -0.25, 0 and 0.25.
Directions == {-Quarter, 0, Quarter}

\* The third coordinate of both corners of the box query of update(), -2.0
\* revolutions.
QueryDirection == -8 * Quarter

\* The states stored in the StatePool, by their coordinates: the sampled
\* directions, and that of a state two revolutions clockwise of 0.
StoredStates ==
    [x : {0, 2}, y : {0, 2}, direction : Directions \cup {QueryDirection}]

\* std::map::emplace(id, area): an id that is present keeps its rectangle.
emplace(areas, id, area) ==
    IF id \in DOMAIN areas THEN areas
    ELSE [i \in DOMAIN areas \cup {id} |->
             IF i = id THEN area ELSE areas[i]]

\* RTree::boxQuery(visitor, lowCorner, highCorner) with a FlaggingVisitor:
\* every stored state whose coordinates lie in the box gets the flag.
boxQuery(pool, flagsToSet, lowCorner, highCorner) ==
    [st \in DOMAIN pool |->
        IF /\ lowCorner[1] <= st.x /\ st.x <= highCorner[1]
           /\ lowCorner[2] <= st.y /\ st.y <= highCorner[2]
           /\ lowCorner[3] <= st.direction /\ st.direction <= highCorner[3]
        THEN pool[st] \cup {flagsToSet} ELSE pool[st]]

\* Nav2DModel::addArea(id, area, type) on the model m (the areas of the
\* four kinds and totalStartArea_).
addArea(m, id, area, type) ==
    LET added ==
          CASE type = "GOAL" ->
                 [m EXCEPT !.goalAreas_ = emplace(@, id, area)]
            [] type = "OBSTACLE" ->
                 [m EXCEPT !.obstacles_ = emplace(@, id, area)]
            [] type = "START" ->
                 [m EXCEPT !.startAreas_ = emplace(@, id, area)]
            [] type = "OBSERVATION" ->
                 [m EXCEPT !.observationAreas_ = emplace(@, id, area)]
    IN  IF type = "START"
        THEN [added EXCEPT !.totalStartArea_ = @ + getArea(area)]
        ELSE added

\* The body of the loop of Nav2DModel::update for one change.
applyChange(m, change) ==
    LET flagsToSet == IF change.type = "OBSERVATION"
                      THEN "OBSERVATION_BEFORE" ELSE "DELETED"
        added == addArea(m, change.id, change.area, change.type)
    IN  [added EXCEPT !.statePool =
            boxQuery(@, flagsToSet,
                     <<change.area.x0, change.area.y0, QueryDirection>>,
                     <<change.area.x1, change.area.y1, QueryDirection>>)]

RECURSIVE update2DSharedVisitor(_, _)
update2DSharedVisitor(m, changes) ==
    IF changes = <<>> THEN m
    ELSE LET change == changes[Len(changes)]
             before == update2DSharedVisitor(
                           m, SubSeq(changes, 1, Len(changes) - 1))
             flagsToSet ==
                 IF \E i \in DOMAIN changes : changes[i].type = "OBSERVATION"
                 THEN "OBSERVATION_BEFORE" ELSE "DELETED"
         IN  [addArea(before, change.id, change.area, change.type)
                EXCEPT !.statePool =
                  boxQuery(@, flagsToSet,
                           <<change.area.x0, change.area.y0, QueryDirection>>,
                           <<change.area.x1, change.area.y1, QueryDirection>>)]

\* Nav2DModel::update(time, pool): the loop over changes_[time].
RECURSIVE update2D(_, _)
update2D(m, changes) ==
    IF changes = <<>> THEN m
    ELSE applyChange(update2D(m, SubSeq(changes, 1, Len(changes) - 1)),
                     changes[Len(changes)])

\* The part of the model that update() works on.
ModelAreas ==
    [startAreas_ |-> startAreas_, totalStartArea_ |-> totalStartArea_,
     goalAreas_ |-> goalAreas_, obstacles_ |-> obstacles_,
     observationAreas_ |-> observationAreas_, statePool |-> statePool]

\* A line of a map file, "<TypeName> <id> <Rectangle>"; "Bogus" is a
\* TypeName the format does not know.
MapTypeNames == {"World", "Start", "Obstacle", "Empty", "Bogus"}

MapLines == [type : MapTypeNames, id : {1, 2}, area : Regions]

\* A map file: one that cannot be opened, or the lines of one that can.
MapFiles ==
    {[isOpen |-> FALSE, lines |-> <<>>]}
    \cup [isOpen : {TRUE},
          lines : UNION {[1..n -> MapLines] : n \in 0..MaxMapLines}]

\* Nav2DModel::getAreas(type) returns nullptr for a type that has no map.
getAreasIsNull(type) ==
    type \notin {"GOAL", "OBSTACLE", "START", "OBSERVATION"}

\* The loop of the constructor over the lines of the map file. addArea on
\* a type without a map calls emplace through a null pointer: the model
\* records that the behaviour is undefined and goes on without the area.
RECURSIVE readMap(_, _)
readMap(m, lines) ==
    IF lines = <<>> THEN m
    ELSE LET before == readMap(m, SubSeq(lines, 1, Len(lines) - 1))
             line == lines[Len(lines)]
             areaType == parseAreaType(line.type)
         IN  IF areaType = "WORLD"
             THEN [before EXCEPT !.mapArea_ = line.area]
             ELSE IF getAreasIsNull(areaType)
             THEN [before EXCEPT !.undefined = TRUE]
             ELSE addArea(before, line.id, line.area, areaType)

\* A state that is nullptr, and a Nav2DState.
NullState == [isNull |-> TRUE, x |-> 0, y |-> 0, direction |-> 0]

Nav2DState(point, direction) ==
    [isNull |-> FALSE, x |-> point.x, y |-> point.y, direction |-> direction]

\* The points Rectangle2D::sampleUniform can return, on the grid of the
\* corners of the regions.
GridPoints == [x : 0..2, y : 0..2]

sampleUniform(rect) == {point \in GridPoints : contains(rect, point)}

\* The values uniform_real_distribution(0, totalStartArea) can return, by
\* their integer part.
AreaValues(totalStartArea) ==
    IF totalStartArea > 0 THEN 0..(totalStartArea - 1) ELSE {0}

\* The loop of sampleAnInitState: the id of the first start area, in the
\* order of the ids, at which the running total exceeds areaValue; Null
\* when the loop ends without one.
RECURSIVE startAreaAt(_, _, _, _)
startAreaAt(startAreas, ids, areaTotal, areaValue) ==
    IF ids = {} THEN Null
    ELSE LET id == CHOOSE i \in ids : \A j \in ids : i <= j
             total == areaTotal + getArea(startAreas[id])
         IN  IF areaValue < total THEN id
             ELSE startAreaAt(startAreas, ids \ {id}, total, areaValue)

\* Nav2DModel::sampleAnInitState, for a draw of the area value and the
\* point the chosen rectangle samples.
sampleAnInitState(startAreas, areaValue, point) ==
    LET id == startAreaAt(startAreas, DOMAIN startAreas, 0, areaValue) IN
    IF id = Null THEN NullState ELSE Nav2DState(point, 0)

\* Nav2DModel::sampleStateUniform / sampleStateAt
sampleStateUniform(point, direction) == Nav2DState(point, direction)

\* Nav2DModel::isInside(point, type), on the areas of the type.
isInside(areas, point) ==
    \E id \in DOMAIN areas : contains(areas[id], point)

\* The program options the constructor reads into the members of the
\* model (timeStepLength_ is a variable).
Options ==
    [costPerUnitTime_ |-> 1, costPerUnitDistance_ |-> 2,
     costPerRevolution_ |-> 3, crashPenalty_ |-> 5, goalReward_ |-> 7,
     interpolationStepCount_ |-> InterpolationStepCount]

\* A speed is whole + halfPi * (M_PI / 2). The paths of the model are the
\* straight ones at a whole speed and the turning ones at a multiple of
\* M_PI / 2 with a rotational speed of a quarter revolution per unit of
\* time, either way: those whose interpolation points are on the grid.
\* The rotational speed is counted in quarter revolutions per unit of time.
PathActions ==
    [speed : [whole : {0, InterpolationStepCount}, halfPi : {0}],
     rotationalSpeed : {0}]
    \cup [speed : [whole : {0}, halfPi : {1}], rotationalSpeed : {-1, 1}]

\* geometry::Vector2D(magnitude, direction) for a direction that is a
\* whole number of quarter revolutions.
Vector2D(magnitude, direction) ==
    LET q == (direction \div Quarter) % 4 IN
    CASE q = 0 -> [x |-> magnitude, y |-> 0]
      [] q = 1 -> [x |-> 0, y |-> magnitude]
      [] q = 2 -> [x |-> -magnitude, y |-> 0]
      [] q = 3 -> [x |-> 0, y |-> -magnitude]

\* Point2D + Vector2D
Plus(point, vector) == [x |-> point.x + vector.x, y |-> point.y + vector.y]

\* "radius = speed / (2 * M_PI * rotationalSpeed)" for a turning path.
Radius(speed, rotationalSpeed) == speed.halfPi * rotationalSpeed

\* "turnAmount = rotationalSpeed * timeStepLength_", in direction units.
TurnAmount(rotationalSpeed, timeStepLength) ==
    rotationalSpeed * timeStepLength * Quarter

\* "direction + turnAmount > 0 ? 0.25 : -0.25": the comparison binds
\* before the conditional, so the direction of the vector is one of the
\* two quarter revolutions.
SideOf(direction, turnAmount) ==
    IF direction + turnAmount > 0 THEN Quarter ELSE -Quarter

\* currentDirection and currentPosition at an interpolation step.
PathDirection(st, action, timeStepLength, step) ==
    LET turnAmount == TurnAmount(action.rotationalSpeed, timeStepLength) IN
    IF turnAmount = 0 THEN st.direction
    ELSE st.direction + (step * turnAmount) \div InterpolationStepCount

PathPoint(st, action, timeStepLength, step) ==
    LET turnAmount == TurnAmount(action.rotationalSpeed, timeStepLength)
        radius == Radius(action.speed, action.rotationalSpeed)
        center == Plus(st, Vector2D(radius, SideOf(st.direction, turnAmount)))
        currentDirection == PathDirection(st, action, timeStepLength, step)
    IN  IF turnAmount = 0
        THEN Plus(st, Vector2D((step * action.speed.whole)
                                  \div InterpolationStepCount, st.direction))
        ELSE Plus(center,
                  Vector2D(radius, SideOf(currentDirection, turnAmount)))

\* "!mapArea_.contains(currentPosition) || isInside(currentPosition,
\* OBSTACLE)"
Blocked(m, point) ==
    ~contains(m.mapArea_, point) \/ isInside(m.obstacles_, point)

collisionKeepsPosition(previous, current) ==
    [current EXCEPT !.hasCollision = TRUE]

\* The collision branch of the loop: back to the previous step.
collision(previous, current) == [previous EXCEPT !.hasCollision = TRUE]

\* The interpolation loop of tryPath from the given step on; cur is
\* currentScalar (as a step number), currentPosition and currentDirection
\* with the two flags.
RECURSIVE interpolate(_, _, _, _, _)
interpolate(m, st, action, step, cur) ==
    IF step > Options.interpolationStepCount_ THEN cur
    ELSE LET point == PathPoint(st, action, m.timeStepLength_, step)
             current ==
                 [cur EXCEPT !.scalar = step, !.x = point.x, !.y = point.y,
                             !.direction = PathDirection(st, action,
                                               m.timeStepLength_, step)]
         IN  IF Blocked(m, point) THEN collision(cur, current)
             ELSE IF isInside(m.goalAreas_, point)
             THEN [current EXCEPT !.inGoal = TRUE]
             ELSE interpolate(m, st, action, step + 1, current)

\* A reward is rational + halfPi * (M_PI / 2), the two parts as fractions.
\* The reward of tryPath: the turn is |scalar * turnAmount| revolutions,
\* the distance of a turning path 2 * M_PI * turn * radius.
PathReward(m, st, action, end) ==
    LET turnAmount == TurnAmount(action.rotationalSpeed, m.timeStepLength_)
        steps == Options.interpolationStepCount_
        turn == Abs(end.scalar * turnAmount)
        extra == (IF end.inGoal THEN Options.goalReward_ ELSE 0)
                 - (IF end.hasCollision THEN Options.crashPenalty_ ELSE 0)
        time == Options.costPerUnitTime_ * m.timeStepLength_
    IN  IF turnAmount = 0
        THEN [rational |->
                Quotient(extra - time
                         - Options.costPerUnitDistance_
                             * (Abs(end.x - st.x) + Abs(end.y - st.y)), 1),
              halfPi |-> Quotient(0, 1)]
        ELSE [rational |->
                Quotient((extra - time) * 4 * Quarter * steps
                         - Options.costPerRevolution_ * turn,
                         4 * Quarter * steps),
              halfPi |->
                Quotient(-(Options.costPerUnitDistance_ * turn
                           * Radius(action.speed, action.rotationalSpeed)),
                         Quarter * steps)]

\* Nav2DModel::tryPath(state, speed, rotationalSpeed)
tryPath(m, st, action) ==
    LET end == interpolate(m, st, action, 1,
                           [scalar |-> 0, x |-> st.x, y |-> st.y,
                            direction |-> st.direction,
                            hasCollision |-> FALSE, inGoal |-> FALSE])
    IN  [state |-> Nav2DState(end, end.direction),
         reward |-> PathReward(m, st, action, end),
         hasCollision |-> end.hasCollision, inGoal |-> end.inGoal]

\* The part of the model that tryPath reads.
PathModel ==
    [mapArea_ |-> mapArea_, obstacles_ |-> obstacles_,
     goalAreas_ |-> goalAreas_, timeStepLength_ |-> timeStepLength_]

NoNavCall == [op |-> "none"]

\* The options problem.speedErrorType = problem.rotationErrorType = "none".
ErrorsOff ==
    /\ speedErrorType_ = "NONE"
    /\ speedErrorSD_ = 0
    /\ rotationErrorType_ = "NONE"
    /\ rotationErrorSD_ = 0

\* A model that has read no file yet.
NavInit ==
    /\ mapArea_ = DefaultRectangle
    /\ startAreas_ = <<>>
    /\ totalStartArea_ = 0
    /\ goalAreas_ = <<>>
    /\ obstacles_ = <<>>
    /\ observationAreas_ = <<>>
    /\ changes_ = <<>>
    /\ timeStepLength_ = 1
    /\ statePool = <<>>
    /\ file = <<>>
    /\ state = NullState
    /\ ErrorsOff
    /\ navLast = NoNavCall

\* A freshly constructed action node with an empty observation mapping.
NodeInit ==
    /\ actionNode = NewActionNode
    /\ childMap_ = {}
    /\ totalVisitCount_ = 0
    /\ beliefs = [id \in NodeIds |-> NoBelief]
    /\ allocated = 0
    /\ discount \in DiscountNums
    /\ immediateQ = 0
    /\ calls = <<>>
    /\ last = NoCall

\* The sessions on the action node leave the action mapping as constructed
\* from an empty bin sequence.
Init ==
    NodeInit /\ ActionMapInit(<<>>) /\ ContinuousMapInit /\ SerializerInit
    /\ NavInit

InRange(an) ==
    /\ Abs(an.nParticles_) <= MaxCount
    /\ Abs(an.totalQValue_) <= MaxTotalQ

BeliefInRange(b) ==
    /\ b.nParticles \in 0..MaxCount
    /\ b.numberOfStartingSequences_ \in 0..1
    /\ b.numberOfEndingSequences_ \in 0..1

(* -------------------- the public methods, one by one ------------------ *)

\* ActionNode::changeTotalQValue(deltaQ, deltaNParticles)
CallChangeTotalQValue ==
    \E deltaQ \in DeltaQValues, deltaNParticles \in Deltas :
        LET an == changeTotalQValue(actionNode, deltaQ, deltaNParticles) IN
        /\ InRange(an)
        /\ actionNode' = an
        /\ last' = Called("changeTotalQValue", Null)
        /\ UNCHANGED <<exceptNode, childMap_, totalVisitCount_, beliefs, allocated,
                       discount, immediateQ, calls>>

\* ActionNode::updateSequenceCount(observation, discountFactor, deltaNParticles)
\* on an observation that has a child belief; discountFactor is the model's.
\* childBelief->recalculateQValue() (BeliefNode.cpp) leaves the child with a
\* Q-value recomputed from its own subtree: any value.
CallUpdateSequenceCount ==
    \E obs \in Observations, deltaNParticles \in Deltas,
       newChildQ \in ChildQValues :
        LET childBelief == getChild(childMap_, obs)
            b == beliefs[childBelief]
            an == sequenceUpdate(actionNode, SequenceCount(b), b.qValue,
                                 newChildQ, discount, deltaNParticles)
        IN  /\ childBelief # Null
            /\ InRange(an)
            /\ actionNode' = an
            /\ beliefs' = [beliefs EXCEPT ![childBelief].qValue = newChildQ]
            /\ last' = [Called("updateSequenceCount", obs)
                          EXCEPT !.delta = deltaNParticles]
            /\ UNCHANGED <<exceptNode, childMap_, totalVisitCount_, allocated, discount,
                           immediateQ, calls>>

\* The same call on an observation without a child belief: getChild returns
\* nullptr and childBelief->getNParticles() dereferences it.  The behaviour
\* is undefined: the process is killed, or the reads return arbitrary
\* values and the arithmetic goes on with them.
CallUpdateSequenceCountNoChild ==
    \E obs \in Observations, deltaNParticles \in Deltas :
        /\ getChild(childMap_, obs) = Null
        /\ \/ /\ UNCHANGED actionNode
              /\ last' = [Called("updateSequenceCount", obs)
                            EXCEPT !.err = "null dereference"]
           \/ \E garbageCount \in 0..MaxCount, oldQ, newQ \in ChildQValues :
                LET an == sequenceUpdate(actionNode, garbageCount, oldQ, newQ,
                                         discount, deltaNParticles)
                IN  /\ InRange(an)
                    /\ actionNode' = an
                    /\ last' = [Called("updateSequenceCount", obs)
                                  EXCEPT !.err = "garbage read"]
        /\ UNCHANGED <<exceptNode, childMap_, totalVisitCount_, beliefs, allocated,
                       discount, immediateQ, calls>>

\* DiscreteObservationMap::createBelief(obs): the node is built at a fresh
\* address; when emplace finds an equal key the entry, and the node it owns,
\* are destroyed again and the returned pointer dangles.
CallCreateBelief ==
    \E obs \in Observations :
        LET fresh == allocated + 1
            map == createBeliefMap(childMap_, obs, fresh)
        IN  /\ allocated < MaxNodes
            /\ allocated' = fresh
            /\ childMap_' = map
            /\ beliefs' = [beliefs EXCEPT
                  ![fresh] = IF getBelief(map, obs) = fresh
                             THEN NewBelief ELSE NoBelief]
            /\ last' = [Called("createBelief", obs) EXCEPT !.ret = fresh]
            /\ UNCHANGED <<exceptNode, actionNode, totalVisitCount_, discount, immediateQ, calls>>

\* ActionNode::createOrGetChild(obs)
CreateOrGetChild(obs) ==
    LET beliefChild == getChild(childMap_, obs)
        fresh == allocated + 1
        map == createBeliefMap(childMap_, obs, fresh)
    IN  IF beliefChild = Null
        THEN /\ allocated < MaxNodes
             /\ allocated' = fresh
             /\ childMap_' = map
             /\ beliefs' = [beliefs EXCEPT
                   ![fresh] = IF getBelief(map, obs) = fresh
                              THEN NewBelief ELSE NoBelief]
             /\ last' = [Called("createOrGetChild", obs)
                           EXCEPT !.ret = fresh, !.added = TRUE]
             /\ UNCHANGED <<exceptNode, actionNode, totalVisitCount_, discount,
                            immediateQ, calls>>
        ELSE /\ last' = [Called("createOrGetChild", obs)
                           EXCEPT !.ret = beliefChild, !.added = FALSE]
             /\ UNCHANGED <<exceptNode, actionNode, childMap_, totalVisitCount_,
                            beliefs, allocated, discount, immediateQ, calls>>

CallCreateOrGetChild == \E obs \in Observations : CreateOrGetChild(obs)

\* DiscreteObservationMap::getBelief(obs)
CallGetBelief ==
    \E obs \in Observations :
        /\ last' = [Called("getBelief", obs)
                      EXCEPT !.ret = getBelief(childMap_, obs)]
        /\ UNCHANGED <<exceptNode, actionNode, childMap_, totalVisitCount_, beliefs,
                       allocated, discount, immediateQ, calls>>

\* DiscreteObservationMap::updateVisitCount(obs, deltaNVisits)
CallUpdateVisitCount ==
    \E obs \in Observations, deltaNVisits \in Deltas :
        LET map == updateVisitCountMap(childMap_, obs, deltaNVisits) IN
        /\ Abs(totalVisitCount_ + deltaNVisits) <= MaxCount
        /\ \A e \in map : Abs(e.visitCount) <= MaxCount
        /\ childMap_' = map
        /\ totalVisitCount_' = totalVisitCount_ + deltaNVisits
        /\ last' = [Called("updateVisitCount", obs) EXCEPT !.delta = deltaNVisits]
        /\ UNCHANGED <<exceptNode, actionNode, beliefs, allocated, discount, immediateQ, calls>>

\* DiscreteObservationMap::getVisitCount(obs): at() throws for a missing key.
CallGetVisitCount ==
    \E obs \in Observations :
        /\ last' = IF HasEntry(childMap_, copy(obs))
                   THEN [Called("getVisitCount", obs)
                           EXCEPT !.ret = getVisitCount(childMap_, obs)]
                   ELSE [Called("getVisitCount", obs)
                           EXCEPT !.err = "out_of_range"]
        /\ UNCHANGED <<exceptNode, actionNode, childMap_, totalVisitCount_, beliefs,
                       allocated, discount, immediateQ, calls>>

\* The solver's accounting on a child belief node (BeliefNode.cpp): a
\* particle is added or removed, or a sequence starts or ends at the node.
ChildAccounting ==
    \E id \in NodeIds, d \in {-1, 1},
       f \in {"nParticles", "numberOfStartingSequences_",
              "numberOfEndingSequences_"} :
        LET b == [beliefs[id] EXCEPT ![f] = @ + d] IN
        /\ beliefs[id].alive
        /\ BeliefInRange(b)
        /\ beliefs' = [beliefs EXCEPT ![id] = b]
        /\ last' = Called("accounting", Null)
        /\ UNCHANGED <<exceptNode, actionNode, childMap_, totalVisitCount_, allocated,
                       discount, immediateQ, calls>>

(* ---------------- the action node's methods in any order -------------- *)

\* The node-call sessions create the child of one observation.
FirstObservation == [v |-> 0, x |-> 0]

CallCreateOrGetFirstChild == CreateOrGetChild(FirstObservation)

NextNodeCalls ==
    \/ CallChangeTotalQValue
    \/ CallUpdateSequenceCount
    \/ CallUpdateSequenceCountNoChild
    \/ CallCreateOrGetFirstChild
    \/ ChildAccounting

SpecNodeCalls == Init /\ [][NextNodeCalls]_vars

(* --------------- changeTotalQValue alone on a fresh node -------------- *)

\* ActionNode::changeTotalQValue(deltaQ, deltaNParticles), with the
\* arguments of the call recorded.
AccumulateCall ==
    \E deltaQ \in DeltaQValues, deltaNParticles \in Deltas :
        LET an == changeTotalQValue(actionNode, deltaQ, deltaNParticles) IN
        /\ Len(calls) < MaxCalls
        /\ InRange(an)
        /\ actionNode' = an
        /\ calls' = Append(calls, [deltaQ |-> deltaQ,
                                   deltaNParticles |-> deltaNParticles])
        /\ last' = Called("changeTotalQValue", Null)
        /\ UNCHANGED <<exceptNode, childMap_, totalVisitCount_, beliefs, allocated,
                       discount, immediateQ>>

NextAccumulate == AccumulateCall

SpecAccumulate == Init /\ [][NextAccumulate]_vars

(* -------------- the observation map's methods in any order ------------ *)

NextMapCalls ==
    \/ CallCreateBelief
    \/ CallCreateOrGetChild
    \/ CallGetBelief
    \/ CallUpdateVisitCount
    \/ CallGetVisitCount

SpecMapCalls == Init /\ [][NextMapCalls]_vars

(* ------------------- the engine: descent and backup ------------------- *)

\* Back-propagation of one sequence through the edge (action node, obs),
\* section 4.3: the child belief's accounting (a particle of the sequence
\* enters or leaves it, or the sequence ends there), then the action node's
\* statistics by updateSequenceCount with the model's discount, then the
\* visit count of the observation edge.
BackupSequence ==
    \E obs \in CanonicalObservations, d \in {-1, 1},
       f \in {"nParticles", "numberOfEndingSequences_"},
       newChildQ \in ChildQValues :
        LET childBelief == getChild(childMap_, obs)
            b == [beliefs[childBelief] EXCEPT ![f] = @ + d]
            an == sequenceUpdate(actionNode, SequenceCount(b), b.qValue,
                                 newChildQ, discount, d)
        IN  /\ childBelief # Null
            /\ BeliefInRange(b)
            /\ SequenceCount(b) \in 0..MaxCount
            /\ InRange(an)
            /\ Abs(an.totalQValue_ - immediateQ) <= MaxTotalQ
            /\ beliefs' = [beliefs EXCEPT
                             ![childBelief] = [b EXCEPT !.qValue = newChildQ]]
            /\ actionNode' = an
            /\ immediateQ' = IF an.nParticles_ > 0 THEN immediateQ ELSE 0
            /\ childMap_' = updateVisitCountMap(childMap_, obs, d)
            /\ totalVisitCount_' = totalVisitCount_ + d
            /\ last' = Called("backupSequence", Null)
            /\ UNCHANGED <<exceptNode, allocated, discount, calls>>

\* Back-propagation of a return through the edge, section 4.3
\* ("totalQ += return; n += 1", undone with -1, or a correction of the
\* return alone with 0), then the visit count of the observation edge.
\* A visit is taken back only from an edge that has one of this kind.
BackupReturn ==
    \E obs \in CanonicalObservations, d \in Deltas, deltaQ \in DeltaQValues :
        LET childBelief == getChild(childMap_, obs)
            an == changeTotalQValue(actionNode, deltaQ, d)
        IN  /\ childBelief # Null
            /\ d = -1 => getVisitCount(childMap_, obs)
                            > SequenceCount(beliefs[childBelief])
            /\ InRange(an)
            /\ actionNode' = an
            /\ immediateQ' = IF an.nParticles_ > 0 THEN immediateQ + deltaQ
                             ELSE 0
            /\ Abs(immediateQ') <= MaxTotalQ
            /\ childMap_' = updateVisitCountMap(childMap_, obs, d)
            /\ totalVisitCount_' = totalVisitCount_ + d
            /\ last' = Called("backupReturn", Null)
            /\ UNCHANGED <<exceptNode, beliefs, allocated, discount, calls>>

\* The repair traversal of section 4.6: the child's Q-value is recomputed
\* and the action node follows with deltaNParticles = 0.
Repair ==
    \E obs \in CanonicalObservations, newChildQ \in ChildQValues :
        LET childBelief == getChild(childMap_, obs)
            b == beliefs[childBelief]
            an == sequenceUpdate(actionNode, SequenceCount(b), b.qValue,
                                 newChildQ, discount, 0)
        IN  /\ childBelief # Null
            /\ InRange(an)
            /\ beliefs' = [beliefs EXCEPT ![childBelief].qValue = newChildQ]
            /\ actionNode' = an
            /\ immediateQ' = IF an.nParticles_ > 0 THEN immediateQ ELSE 0
            /\ last' = Called("repair", Null)
            /\ UNCHANGED <<exceptNode, childMap_, totalVisitCount_, allocated, discount, calls>>

\* One simulation locates or creates the child (createOrGetChild, section
\* 4.5 step 2c) and backs its returns up; a repair traversal may follow a
\* model change.
Descend == \E obs \in CanonicalObservations : CreateOrGetChild(obs)

Next ==
    \/ Descend
    \/ BackupSequence
    \/ BackupReturn
    \/ Repair

Spec == Init /\ [][Next]_vars

(* ------------- the engine's use of the observation mapping ------------ *)

\* The visit of an observation edge by a simulation: updateVisitCount on
\* an observation whose child the descent has located or created.
VisitEdge ==
    \E obs \in Observations, deltaNVisits \in {-1, 1} :
        LET map == updateVisitCountMap(childMap_, obs, deltaNVisits) IN
        /\ getChild(childMap_, obs) # Null
        /\ \A e \in map : e.visitCount \in 0..MaxCount
        /\ childMap_' = map
        /\ totalVisitCount_' = totalVisitCount_ + deltaNVisits
        /\ last' = [Called("updateVisitCount", obs) EXCEPT !.delta = deltaNVisits]
        /\ UNCHANGED <<exceptNode, actionNode, beliefs, allocated, discount, immediateQ, calls>>

NextTree ==
    \/ CallCreateOrGetChild
    \/ CallGetBelief
    \/ VisitEdge

SpecTree == Init /\ [][NextTree]_vars

(* ------------------- the discretized action mapping ------------------- *)

ActionCalled(op, action) ==
    [NoActionCall EXCEPT !.op = op, !.action = action]

\* DiscretizedActionMap::getNextActionToTry(): the head of the bin sequence
\* is removed and the pool samples an action of that bin (any of them);
\* nullptr when the sequence is empty.
CallGetNextActionToTry ==
    /\ IF binSequence_ = <<>>
       THEN /\ lastAction' = ActionCalled("getNextActionToTry", NullAction)
            /\ UNCHANGED <<binSequence_, tried>>
       ELSE \E action \in Actions :
               /\ getBinNumber(action) = Head(binSequence_)
               /\ binSequence_' = Tail(binSequence_)
               /\ tried' = Append(tried, action)
               /\ lastAction' = ActionCalled("getNextActionToTry", action)
    /\ UNCHANGED <<exceptActions, entries_, nChildren_, numberOfVisitedEntries_,
                   actionTotalVisitCount_, initialBinSequence>>

\* DiscretizedActionMap::createActionNode(action), called when
\* getActionNode(action) found no child: a new ActionNode is owned by the
\* entry of the action's bin.
CreateActionNode(action) ==
    LET fresh == nChildren_ + 1 IN
    /\ getActionNode(entries_, action) = Null
    /\ nChildren_ < MaxNodes
    /\ entries_' = [entries_ EXCEPT ![getBinNumber(action)].childNode_ = fresh]
    /\ nChildren_' = fresh
    /\ lastAction' = [ActionCalled("createActionNode", action)
                        EXCEPT !.node = fresh, !.entry = getEntry(action)]
    /\ UNCHANGED <<exceptActions, numberOfVisitedEntries_, binSequence_,
                   actionTotalVisitCount_, initialBinSequence, tried>>

CallCreateActionNode == \E action \in Actions : CreateActionNode(action)

\* DiscretizedActionMap::getActionNode(action)
CallGetActionNode ==
    \E action \in Actions :
        /\ lastAction' = [ActionCalled("getActionNode", action)
                            EXCEPT !.node = getActionNode(entries_, action)]
        /\ UNCHANGED <<exceptActions, entries_, nChildren_,
                       numberOfVisitedEntries_, binSequence_,
                       actionTotalVisitCount_, initialBinSequence, tried>>

\* DiscretizedActionMap::getEntry(action)
CallGetEntry ==
    \E action \in Actions :
        /\ lastAction' = [ActionCalled("getEntry", action)
                            EXCEPT !.entry = getEntry(action)]
        /\ UNCHANGED <<exceptActions, entries_, nChildren_,
                       numberOfVisitedEntries_, binSequence_,
                       actionTotalVisitCount_, initialBinSequence, tried>>

\* getEntry(action)->updateValue(deltaNVisits, deltaTotalQ) by the
\* back-propagation, on an entry whose action node exists; the mapping's
\* counters follow the entry's visit count.  The return of one visit lies
\* in 0..1, so the total stays within 0..visitCount_.
CallUpdateValue ==
    \E action \in Actions, deltaNVisits \in {-1, 1}, deltaTotalQ \in {0, 1} :
        LET index == getEntry(action)
            entry == updateValue(entries_[index], deltaNVisits, deltaTotalQ)
        IN  /\ getActionNode(entries_, action) # Null
            /\ entry.visitCount_ \in 0..MaxCount
            /\ entry.totalQValue_ \in 0..entry.visitCount_
            /\ entries_' = [entries_ EXCEPT ![index] = entry]
            /\ actionTotalVisitCount_' = actionTotalVisitCount_ + deltaNVisits
            /\ numberOfVisitedEntries_' = numberOfVisitedEntries_
                  + (IF entries_[index].visitCount_ = 0 THEN 1 ELSE 0)
                  - (IF entry.visitCount_ = 0 THEN 1 ELSE 0)
            /\ lastAction' = [ActionCalled("updateValue", action)
                                EXCEPT !.entry = index,
                                       !.visits = entry.visitCount_]
            /\ UNCHANGED <<exceptActions, nChildren_, binSequence_,
                           initialBinSequence, tried>>

\* The expansion phase: the action node of an action that
\* getNextActionToTry has returned is created.
ExpandTried == \E i \in 1..Len(tried) : CreateActionNode(tried[i])

\* A belief node's mapping built from any bin sequence; the search tries
\* its actions one by one and expands them.
InitBins ==
    /\ NodeInit
    /\ discount = DiscountDen
    /\ \E binSequence \in BinSequences : ActionMapInit(binSequence)
    /\ ContinuousMapInit
    /\ SerializerInit
    /\ NavInit

NextBins ==
    \/ CallGetNextActionToTry
    \/ ExpandTried

SpecBins == InitBins /\ [][NextBins]_vars

\* The bin sequence of a pool that offers every bin once, in order.
AllBins == [i \in 1..NumberOfBins |-> i - 1]

InitEntries ==
    /\ NodeInit
    /\ discount = DiscountDen
    /\ ActionMapInit(AllBins)
    /\ ContinuousMapInit
    /\ SerializerInit
    /\ NavInit

\* The retrieval and update methods in any order.
NextEntries ==
    \/ CallCreateActionNode
    \/ CallGetActionNode
    \/ CallGetEntry
    \/ CallUpdateValue

SpecEntries == InitEntries /\ [][NextEntries]_vars

(* -------------------- the continuous action mapping ------------------- *)

\* ContinuousActionMap::createActionNode(action), the expansion phase: the
\* entry of the action's construction data is created if there is none, and
\* a new ActionNode becomes its child.
CallContinuousCreateActionNode ==
    \E key \in ConstructionData :
        LET fresh == createdNodes + 1
            entry == IF key \in DOMAIN entries THEN entries[key]
                     ELSE NewContinuousEntry
        IN  /\ entry.childNode = Null
            /\ createdNodes < MaxNodes
            /\ createdNodes' = fresh
            /\ entries' = [k \in DOMAIN entries \cup {key} |->
                              IF k = key THEN [entry EXCEPT !.childNode = fresh]
                              ELSE entries[k]]
            /\ nChildren' = nChildren + 1
            /\ UNCHANGED <<exceptContinuous, numberOfVisitedEntries,
                           totalVisitCount>>

\* ContinuousActionMapEntry::setLegal(legal)
CallContinuousSetLegal ==
    \E key \in DOMAIN entries, legal \in BOOLEAN :
        /\ entries' = [entries EXCEPT ![key].isLegal_ = legal]
        /\ UNCHANGED <<exceptContinuous, nChildren, numberOfVisitedEntries,
                       totalVisitCount, createdNodes>>

\* getEntry(action)->update(deltaNVisits, deltaTotalQ) by the
\* back-propagation (sections 4.3 and 4.6: n += 1, or Q alone), through an
\* action that was legal when it was selected and has its action node.
CallContinuousUpdate ==
    \E key \in DOMAIN entries, deltaNVisits \in {0, 1}, deltaTotalQ \in {0, 1} :
        LET entry == update(entries[key], deltaNVisits, deltaTotalQ) IN
        /\ entries[key].childNode # Null
        /\ entries[key].isLegal_
        /\ entry.visitCount_ \in 1..MaxCount
        /\ entry.totalQValue_ \in 0..entry.visitCount_
        /\ entries' = [entries EXCEPT ![key] = entry]
        /\ totalVisitCount' = totalVisitCount + deltaNVisits
        /\ numberOfVisitedEntries' = numberOfVisitedEntries
              + (IF entries[key].visitCount_ = 0 THEN 1 ELSE 0)
        /\ UNCHANGED <<exceptContinuous, nChildren, createdNodes>>

\* ContinuousActionMap::deleteChild(entry), the invalidation after a model
\* change.
CallContinuousDeleteChild ==
    \E key \in DOMAIN entries :
        /\ entries[key].childNode # Null
        /\ entries' = deleteChild(entries, key)
        /\ nChildren' = nChildren - 1
        /\ totalVisitCount' = totalVisitCount - entries[key].visitCount_
        /\ numberOfVisitedEntries' = numberOfVisitedEntries
              - (IF entries[key].visitCount_ > 0 THEN 1 ELSE 0)
        /\ UNCHANGED <<exceptContinuous, createdNodes>>

InitContinuous ==
    /\ NodeInit
    /\ discount = DiscountDen
    /\ ActionMapInit(<<>>)
    /\ ContinuousMapInit
    /\ SerializerInit
    /\ NavInit

NextContinuous ==
    \/ CallContinuousCreateActionNode
    \/ CallContinuousSetLegal
    \/ CallContinuousUpdate
    \/ CallContinuousDeleteChild

SpecContinuous == InitContinuous /\ [][NextContinuous]_vars

(* ------------------ saving and reloading the mapping ------------------ *)

\* saveObservationMapping(map, os) followed by loadObservationMapping(is)
\* on the text written.  Every entry of the mapping has its child belief
\* (entry.second.childNode->getId() is evaluated for each).
CallSaveAndLoad ==
    LET text == saveObservationMapping(childMap_, totalVisitCount_) IN
    /\ \A e \in childMap_ : e.childNode # Null
    /\ os' = text
    /\ loaded' = loadObservationMapping(text)
    /\ UNCHANGED exceptSerializer

\* The search runs, and the tree is saved when the session ends.
DescendBeforeSave == os = <<>> /\ CallCreateOrGetChild

VisitBeforeSave == os = <<>> /\ VisitEdge

SaveAtEnd == os = <<>> /\ CallSaveAndLoad

NextSaved ==
    \/ DescendBeforeSave
    \/ VisitBeforeSave
    \/ SaveAtEnd

SpecSaved == Init /\ [][NextSaved]_vars

\* The mapping's own methods are called, and the mapping is saved and
\* loaded again once every entry has its child belief.
CreateBeforeSave == os = <<>> /\ CallCreateBelief

CountBeforeSave == os = <<>> /\ CallUpdateVisitCount

NextMapSaved ==
    \/ CreateBeforeSave
    \/ CountBeforeSave
    \/ SaveAtEnd

SpecMapSaved == Init /\ [][NextMapSaved]_vars

(* ------------------------- Nav2DModel: changes ------------------------ *)

\* Nav2DModel::loadChanges(changeFilename) on the changes file.
CallLoadChanges ==
    LET read == loadChanges(changes_, file) IN
    /\ navLast.op = "none"
    /\ changes_' = read.changes_
    /\ navLast' = [op |-> "loadChanges",
                   changeTimes |-> read.changeTimes]
    /\ UNCHANGED <<exceptNav, mapArea_, startAreas_, totalStartArea_,
                   goalAreas_, obstacles_, observationAreas_,
                   timeStepLength_, statePool, file, state, errorVars>>

\* The rest of a model with defaults, and nothing of the search engine used.
EngineIdle ==
    /\ NodeInit
    /\ discount = DiscountDen
    /\ ActionMapInit(<<>>)
    /\ ContinuousMapInit
    /\ SerializerInit

InitLoadChanges ==
    /\ EngineIdle
    /\ mapArea_ = DefaultRectangle
    /\ startAreas_ = <<>>
    /\ totalStartArea_ = 0
    /\ goalAreas_ = <<>>
    /\ obstacles_ = <<>>
    /\ observationAreas_ = <<>>
    /\ changes_ = <<>>
    /\ timeStepLength_ = 1
    /\ statePool = <<>>
    /\ file \in ChangeFiles
    /\ state = NullState
    /\ ErrorsOff
    /\ navLast = NoNavCall

NextLoadChanges == CallLoadChanges

SpecLoadChanges == InitLoadChanges /\ [][NextLoadChanges]_vars

\* Nav2DModel::update(time, pool); changes_[time] creates an empty entry
\* for a time that has none.
CallUpdate ==
    \E time \in 1..MaxTime :
        LET changes == IF time \in DOMAIN changes_ THEN changes_[time]
                       ELSE <<>>
            m == update2D(ModelAreas, changes)
        IN  /\ changes_' = [t \in DOMAIN changes_ \cup {time} |->
                               IF t = time THEN changes ELSE changes_[t]]
            /\ startAreas_' = m.startAreas_
            /\ totalStartArea_' = m.totalStartArea_
            /\ goalAreas_' = m.goalAreas_
            /\ obstacles_' = m.obstacles_
            /\ observationAreas_' = m.observationAreas_
            /\ statePool' = m.statePool
            /\ navLast' = [op |-> "update", time |-> time,
                           flagged |-> {st \in DOMAIN statePool :
                                           m.statePool[st] # statePool[st]}]
            /\ UNCHANGED <<exceptNav, mapArea_, timeStepLength_, file, state, errorVars>>

\* A model whose changes were loaded from a changes file, with a pool of
\* stored states none of which is flagged.
InitUpdate ==
    /\ EngineIdle
    /\ mapArea_ = Rectangle(0, 0, 2, 2)
    /\ startAreas_ = <<>>
    /\ totalStartArea_ = 0
    /\ goalAreas_ = <<>>
    /\ obstacles_ = <<>>
    /\ observationAreas_ = <<>>
    /\ file \in ChangeFiles
    /\ changes_ = loadChanges(<<>>, file).changes_
    /\ timeStepLength_ = 1
    /\ statePool = [st \in StoredStates |-> {}]
    /\ state = NullState
    /\ ErrorsOff
    /\ navLast = NoNavCall

NextUpdate == CallUpdate

SpecUpdate == InitUpdate /\ [][NextUpdate]_vars

(* ---------------- a time without changes, then repair ---------------- *)

\* A changes file with one obstacle at time 1 and nothing at other times.
OneObstacleFile ==
    <<[time |-> 1,
       lines |-> <<[operation |-> "ADD", type |-> "Obstacle", id |-> 1,
                    area |-> Rectangle(0, 0, 1, 1)]>>]>>

\* The repair traversal (section 4.6) that follows update() for a time
\* without changes: no state is flagged, the child's recalculated Q-value
\* is what it was, and the action node is updated through
\* updateSequenceCount with deltaNParticles = 0.
RepairAfterEmptyChange ==
    \E obs \in CanonicalObservations :
        LET childBelief == getChild(childMap_, obs)
            b == beliefs[childBelief]
            an == sequenceUpdate(actionNode, SequenceCount(b), b.qValue,
                                 b.qValue, discount, 0)
        IN  /\ navLast.op = "update"
            /\ changes_[navLast.time] = <<>>
            /\ childBelief # Null
            /\ actionNode' = an
            /\ last' = Called("repairAfterEmptyChange", obs)
            /\ UNCHANGED <<exceptNode, childMap_, totalVisitCount_, beliefs,
                           allocated, discount, immediateQ, calls>>

\* The solver on a model with a start area, a loaded changes file and a
\* pool of stored states.
InitEmptyChange ==
    /\ NodeInit
    /\ ActionMapInit(<<>>)
    /\ ContinuousMapInit
    /\ SerializerInit
    /\ mapArea_ = Rectangle(0, 0, 2, 2)
    /\ startAreas_ = (1 :> Rectangle(0, 0, 1, 1))
    /\ totalStartArea_ = 1
    /\ goalAreas_ = <<>>
    /\ obstacles_ = <<>>
    /\ observationAreas_ = <<>>
    /\ file = OneObstacleFile
    /\ changes_ = loadChanges(<<>>, file).changes_
    /\ timeStepLength_ = 1
    /\ statePool = [st \in StoredStates |-> {}]
    /\ state = NullState
    /\ ErrorsOff
    /\ navLast = NoNavCall

NextEmptyChange ==
    \/ CallCreateOrGetFirstChild
    \/ BackupSequence
    \/ BackupReturn
    \/ CallUpdate
    \/ RepairAfterEmptyChange

SpecEmptyChange == InitEmptyChange /\ [][NextEmptyChange]_vars

(* ------------------- construction and sampling ------------------------ *)

\* Nav2DModel::Nav2DModel: opens and reads the map file, then samples
\* three initial states (two are printed, one is drawn) and dereferences
\* each. Undefined behaviour (emplace through the null pointer of
\* getAreas, dereferencing a null state) either kills the process with a
\* signal or goes on. Every region has area 1, so the total start area
\* is at most the number of lines.
Construct ==
    \E draws \in [1..3 -> AreaValues(MaxMapLines)],
       undefinedOutcome \in {"signal", "constructed"} :
        LET m == readMap(ModelAreas @@ [mapArea_ |-> mapArea_,
                                        undefined |-> FALSE],
                         file.lines)
            nullSample ==
                \E i \in 1..3 :
                    startAreaAt(m.startAreas_, DOMAIN m.startAreas_, 0,
                                draws[i]) = Null
        IN  /\ navLast.op = "none"
            /\ \A i \in 1..3 : draws[i] \in AreaValues(m.totalStartArea_)
            /\ IF ~file.isOpen
               THEN /\ navLast' = [op |-> "construct", outcome |-> "exit",
                                   code |-> 1, nullSample |-> FALSE,
                                   nullAreas |-> FALSE]
                    /\ UNCHANGED <<mapArea_, startAreas_, totalStartArea_,
                                   goalAreas_, obstacles_, observationAreas_>>
               ELSE /\ mapArea_' = m.mapArea_
                    /\ startAreas_' = m.startAreas_
                    /\ totalStartArea_' = m.totalStartArea_
                    /\ goalAreas_' = m.goalAreas_
                    /\ obstacles_' = m.obstacles_
                    /\ observationAreas_' = m.observationAreas_
                    /\ navLast' =
                         [op |-> "construct",
                          outcome |-> IF m.undefined \/ nullSample
                                      THEN undefinedOutcome
                                      ELSE "constructed",
                          code |-> 0, nullSample |-> nullSample,
                          nullAreas |-> m.undefined]
            /\ UNCHANGED <<exceptNav, changes_, timeStepLength_, statePool,
                           file, state, errorVars>>

\* The model exists: the constructor returned.
Constructed ==
    \/ navLast.op = "construct" /\ navLast.outcome = "constructed"
    \/ navLast.op \in {"sampleAnInitState", "sampleStateUniform"}

\* Nav2DModel::sampleAnInitState()
CallSampleAnInitState ==
    \E areaValue \in AreaValues(totalStartArea_), point \in GridPoints :
        LET id == startAreaAt(startAreas_, DOMAIN startAreas_, 0, areaValue)
        IN  /\ Constructed
            /\ id # Null => point \in sampleUniform(startAreas_[id])
            /\ navLast' = [op |-> "sampleAnInitState",
                           ret |-> sampleAnInitState(startAreas_, areaValue,
                                                     point)]
            /\ UNCHANGED <<exceptNav, mapArea_, startAreas_, totalStartArea_,
                           goalAreas_, obstacles_, observationAreas_,
                           changes_, timeStepLength_, statePool, file, state, errorVars>>

\* Nav2DModel::sampleStateUniform()
CallSampleStateUniform ==
    \E point \in sampleUniform(mapArea_), direction \in Directions :
        /\ Constructed
        /\ navLast' = [op |-> "sampleStateUniform",
                       ret |-> sampleStateUniform(point, direction)]
        /\ UNCHANGED <<exceptNav, mapArea_, startAreas_, totalStartArea_,
                       goalAreas_, obstacles_, observationAreas_,
                       changes_, timeStepLength_, statePool, file, state, errorVars>>

InitConstruct ==
    /\ EngineIdle
    /\ mapArea_ = DefaultRectangle
    /\ startAreas_ = <<>>
    /\ totalStartArea_ = 0
    /\ goalAreas_ = <<>>
    /\ obstacles_ = <<>>
    /\ observationAreas_ = <<>>
    /\ changes_ = <<>>
    /\ timeStepLength_ = 1
    /\ statePool = <<>>
    /\ file \in MapFiles
    /\ state = NullState
    /\ ErrorsOff
    /\ navLast = NoNavCall

NextConstruct ==
    \/ Construct
    \/ CallSampleAnInitState
    \/ CallSampleStateUniform

SpecConstruct == InitConstruct /\ [][NextConstruct]_vars

(* ------------------------------- paths -------------------------------- *)

\* Nav2DModel::tryPath on the state the agent is in; the agent moves to
\* the resulting state. A straight path needs a direction that is a whole
\* number of quarter revolutions, and directions stay within half a
\* revolution either way.
CallTryPath ==
    \E action \in PathActions :
        LET result == tryPath(PathModel, state, action) IN
        /\ ~state.isNull
        /\ action.rotationalSpeed = 0 => state.direction % Quarter = 0
        /\ Abs(result.state.direction) <= 2 * Quarter
        /\ state' = result.state
        /\ navLast' = [op |-> "tryPath", state |-> state, action |-> action,
                       result |-> result]
        /\ UNCHANGED <<exceptNav, mapArea_, startAreas_, totalStartArea_,
                       goalAreas_, obstacles_, observationAreas_, changes_,
                       timeStepLength_, statePool, file, errorVars>>

\* A square map with a start area in a corner, with or without a wall and
\* a goal; the agent is in a state that sampleAnInitState returned.
InitTryPath ==
    /\ EngineIdle
    /\ mapArea_ = Rectangle(0, 0, MapSize, MapSize)
    /\ startAreas_ = (1 :> Rectangle(0, 0, 1, 1))
    /\ totalStartArea_ = 1
    /\ goalAreas_ \in {<<>>, (1 :> Rectangle(0, MapSize - 1, 1, MapSize))}
    /\ obstacles_ \in {<<>>, (1 :> Rectangle(2, 0, 2, MapSize))}
    /\ observationAreas_ = <<>>
    /\ changes_ = <<>>
    /\ timeStepLength_ \in {1, 2}
    /\ statePool = <<>>
    /\ file = [isOpen |-> TRUE, lines |-> <<>>]
    /\ \E point \in sampleUniform(startAreas_[1]) :
          state = sampleAnInitState(startAreas_, 0, point)
    /\ ErrorsOff
    /\ navLast = NoNavCall

NextTryPath == CallTryPath

SpecTryPath == InitTryPath /\ [][NextTryPath]_vars

(* ------------------- Nav2DModel: the noise on actions ----------------- *)

\* Nav2DModel::ErrorType
ErrorTypes == {"PROPORTIONAL_GAUSSIAN_NOISE", "ABSOLUTE_GAUSSIAN_NOISE", "NONE"}

\* Largest standard deviation in the options, largest commanded speed, and
\* the largest standard-normal draw (in whole standard deviations).
MaxErrorSD == 2

MaxSpeed == 2

MaxDraw == 2

ErrorSDs == 1..MaxErrorSD

StandardDraws == (-MaxDraw)..MaxDraw

\* std::normal_distribution<double>(mean, stddev)(*getRandomGenerator()):
\* the value the distribution gives for the standard-normal draw z that the
\* generator produces.
normal_distribution(mean, stddev, z) == mean + stddev * z

\* The error settings of a model.
ErrorSettings ==
    [speedErrorType_ |-> speedErrorType_, speedErrorSD_ |-> speedErrorSD_,
     rotationErrorType_ |-> rotationErrorType_,
     rotationErrorSD_ |-> rotationErrorSD_]

\* Nav2DModel::applySpeedError(speed)
applySpeedError(m, speed, z) ==
    CASE m.speedErrorType_ = "PROPORTIONAL_GAUSSIAN_NOISE" ->
            LET noisy == normal_distribution(1, m.speedErrorSD_, z) * speed
            IN  IF noisy < 0 THEN 0 ELSE noisy
      [] m.speedErrorType_ = "ABSOLUTE_GAUSSIAN_NOISE" ->
            LET noisy == normal_distribution(speed, m.speedErrorSD_, z)
            IN  IF noisy < 0 THEN 0 ELSE noisy
      [] m.speedErrorType_ = "NONE" -> speed

\* Nav2DModel::applyRotationalError(rotationalSpeed)
applyRotationalError(m, rotationalSpeed, z) ==
    CASE m.rotationErrorType_ = "PROPORTIONAL_GAUSSIAN_NOISE" ->
            rotationalSpeed * normal_distribution(1, m.rotationErrorSD_, z)
      [] m.rotationErrorType_ = "ABSOLUTE_GAUSSIAN_NOISE" ->
            normal_distribution(rotationalSpeed, m.speedErrorSD_, z)
      [] m.rotationErrorType_ = "NONE" -> rotationalSpeed

CallApplySpeedError ==
    \E speed \in 0..MaxSpeed, z \in StandardDraws :
        /\ navLast' = [op |-> "applySpeedError", speed |-> speed, z |-> z,
                       result |-> applySpeedError(ErrorSettings, speed, z)]
        /\ UNCHANGED <<exceptNav, mapArea_, startAreas_, totalStartArea_,
                       goalAreas_, obstacles_, observationAreas_, changes_,
                       timeStepLength_, statePool, file, state, errorVars>>

CallApplyRotationalError ==
    \E rotationalSpeed \in (-MaxSpeed)..MaxSpeed, z \in StandardDraws :
        /\ navLast' = [op |-> "applyRotationalError",
                       speed |-> rotationalSpeed, z |-> z,
                       result |-> applyRotationalError(ErrorSettings,
                                                       rotationalSpeed, z)]
        /\ UNCHANGED <<exceptNav, mapArea_, startAreas_, totalStartArea_,
                       goalAreas_, obstacles_, observationAreas_, changes_,
                       timeStepLength_, statePool, file, state, errorVars>>

\* A model constructed with any error types and standard deviations.
InitErrors ==
    /\ EngineIdle
    /\ mapArea_ = DefaultRectangle
    /\ startAreas_ = <<>>
    /\ totalStartArea_ = 0
    /\ goalAreas_ = <<>>
    /\ obstacles_ = <<>>
    /\ observationAreas_ = <<>>
    /\ changes_ = <<>>
    /\ timeStepLength_ = 1
    /\ statePool = <<>>
    /\ file = <<>>
    /\ state = NullState
    /\ speedErrorType_ \in ErrorTypes
    /\ speedErrorSD_ \in ErrorSDs
    /\ rotationErrorType_ \in ErrorTypes
    /\ rotationErrorSD_ \in ErrorSDs
    /\ navLast = NoNavCall

NextErrors ==
    \/ CallApplySpeedError
    \/ CallApplyRotationalError

SpecErrors == InitErrors /\ [][NextErrors]_vars

(* ---------------------- Nav2DModel: generateStep ---------------------- *)

\* Nav2DModel::isTerminal(state)
isTerminal(m, st) == isInside(m.goalAreas_, st)

\* generateStep as it would be with the terminal flag taken from the goal
\* reward of the path.
generateStepTerminalWhenRewarded(m, e, st, action, zs) ==
    LET speed == applySpeedError(e, action.speed, zs[1])
        rotationalSpeed ==
            applyRotationalError(e, action.rotationalSpeed, zs[2])
        path == tryPath(m, st, [speed |-> speed,
                                rotationalSpeed |-> rotationalSpeed])
    IN  [state |-> path.state, reward |-> path.reward,
         hasCollision |-> path.hasCollision, inGoal |-> path.inGoal,
         isTerminal |-> path.inGoal]

\* Nav2DModel::generateStep(state, action) on a model with the error
\* settings e, for the two draws zs of the generator: the next state, the
\* reward and the terminal flag of the StepResult (the flags of tryPath are
\* kept beside them).
generateStep(m, e, st, action, zs) ==
    LET speed == applySpeedError(e, action.speed, zs[1])
        rotationalSpeed ==
            applyRotationalError(e, action.rotationalSpeed, zs[2])
        path == tryPath(m, st, [speed |-> speed,
                                rotationalSpeed |-> rotationalSpeed])
    IN  [state |-> path.state, reward |-> path.reward,
         hasCollision |-> path.hasCollision, inGoal |-> path.inGoal,
         isTerminal |-> isTerminal(m, path.state)]

\* One step of a simulation: generateStep on the particle drawn from the
\* belief, or on the state the previous step of the descent resulted in when
\* that was not terminal.
CallGenerateStep ==
    \E action \in PathActions, zs \in StandardDraws \X StandardDraws :
        LET result == generateStep(PathModel, ErrorSettings, state, action, zs)
        IN  /\ ~state.isNull
            /\ navLast.op = "generateStep" => ~navLast.result.isTerminal
            /\ action.rotationalSpeed = 0 => state.direction % Quarter = 0
            /\ Abs(result.state.direction) <= 2 * Quarter
            /\ state' = result.state
            /\ navLast' = [op |-> "generateStep", state |-> state,
                           action |-> action, result |-> result]
            /\ UNCHANGED <<exceptNav, mapArea_, startAreas_, totalStartArea_,
                           goalAreas_, obstacles_, observationAreas_, changes_,
                           timeStepLength_, statePool, file, errorVars>>

\* The square map of the paths, with no goal, a goal in the far corner or a
\* goal over a part of the start area; the particle is a state that
\* sampleAnInitState returned.
InitGenerateStep ==
    /\ EngineIdle
    /\ mapArea_ = Rectangle(0, 0, MapSize, MapSize)
    /\ startAreas_ = (1 :> Rectangle(0, 0, 1, 1))
    /\ totalStartArea_ = 1
    /\ goalAreas_ \in {<<>>, (1 :> Rectangle(0, MapSize - 1, 1, MapSize)),
                        (1 :> Rectangle(1, 0, 1, 1))}
    /\ obstacles_ \in {<<>>, (1 :> Rectangle(2, 0, 2, MapSize))}
    /\ observationAreas_ = <<>>
    /\ changes_ = <<>>
    /\ timeStepLength_ \in {1, 2}
    /\ statePool = <<>>
    /\ file = [isOpen |-> TRUE, lines |-> <<>>]
    /\ \E point \in sampleUniform(startAreas_[1]) :
          state = sampleAnInitState(startAreas_, 0, point)
    /\ ErrorsOff
    /\ navLast = NoNavCall

NextGenerateStep == CallGenerateStep

SpecGenerateStep == InitGenerateStep /\ [][NextGenerateStep]_vars

(* ============================== claims ================================ *)

\* The children of the action node: the nodes its entries own.
Children == {e.childNode : e \in childMap_} \ {Null}

\* The child belief for an observation: the node of the entry whose key
\* equals it, or Null.
ChildFor(map, o) ==
    IF \E e \in map : equals(e.key, o)
    THEN (CHOOSE e \in map : equals(e.key, o)).childNode
    ELSE Null

\* Sum over the children S of (child belief Q) x (sequence count).
RECURSIVE SumChildQ(_)
SumChildQ(S) ==
    IF S = {} THEN 0
    ELSE LET c == CHOOSE c \in S : TRUE
             seq == beliefs[c].nParticles
                      - beliefs[c].numberOfStartingSequences_
                      + beliefs[c].numberOfEndingSequences_
         IN  beliefs[c].qValue * seq + SumChildQ(S \ {c})

(* C1: between simulations the action node's n (nParticles_) equals the sum
   of the visitCount fields of the entries of its observation mapping. *)
C1_CountEqualsVisitSum ==
    actionNode.nParticles_ = SumVisitCounts(childMap_)

\* Two observation edges have visits and the node counts them all.
C1_Witness ==
    /\ actionNode.nParticles_ = MaxCount
    /\ Cardinality({e \in childMap_ : e.visitCount > 0}) = 2

(* C2: in every reachable state of the action node, n > 0 implies
   meanQ = totalQ / n and n = 0 implies meanQ = -infinity. *)
C2_MeanQ ==
    /\ actionNode.nParticles_ > 0 =>
         /\ actionNode.meanQValue_[2] > 0
         /\ actionNode.meanQValue_[1] * actionNode.nParticles_
              = actionNode.totalQValue_ * actionNode.meanQValue_[2]
    /\ actionNode.nParticles_ = 0 => actionNode.meanQValue_ = NegInf

\* A mean that is no integer, left by updateSequenceCount.
C2_Witness ==
    /\ last.op = "updateSequenceCount"
    /\ actionNode.nParticles_ = 2
    /\ actionNode.totalQValue_ = 1
    /\ actionNode.meanQValue_ = <<1, 2>>

(* C3: updateSequenceCount(o, gamma, delta) on an observation with a child
   belief, when n + delta > 0, leaves n' = n + delta and
   totalQ' = totalQ - oldSeq*gamma*oldChildQ + newSeq*gamma*newChildQ, where
   newSeq = childParticles - startingSequences + endingSequences,
   oldSeq = newSeq - delta, oldChildQ is the child's Q before and newChildQ
   its Q after the child's recalculation. *)
C3_SequenceUpdate ==
    [][(last'.op = "updateSequenceCount" /\ last'.err = "none"
          /\ actionNode.nParticles_ + last'.delta > 0)
       => LET c == ChildFor(childMap_, last'.obs)
              newSeq == beliefs[c].nParticles
                          - beliefs[c].numberOfStartingSequences_
                          + beliefs[c].numberOfEndingSequences_
              oldSeq == newSeq - last'.delta
          IN  /\ actionNode'.nParticles_ = actionNode.nParticles_ + last'.delta
              /\ DiscountDen * actionNode'.totalQValue_
                   = DiscountDen * actionNode.totalQValue_
                       - oldSeq * discount * beliefs[c].qValue
                       + newSeq * discount * beliefs'[c].qValue]_vars

\* A call with a changed child Q, a started and an ended sequence at the
\* child, and old and new sequence counts both nonzero.
C3_Witness ==
    /\ last.op = "updateSequenceCount"
    /\ last.err = "none"
    /\ last.delta = 1
    /\ actionNode.nParticles_ > 0
    /\ actionNode.totalQValue_ # 0
    /\ LET c == ChildFor(childMap_, last.obs)
       IN  /\ beliefs[c].qValue # 0
           /\ beliefs[c].numberOfStartingSequences_ = 1
           /\ beliefs[c].numberOfEndingSequences_ = 1
           /\ beliefs[c].nParticles = 2

(* C4, as claimed: totalQ equals the sum over the child beliefs of
   (child belief Q) x (the child's sequence count). *)
C4_Original ==
    actionNode.totalQValue_ = SumChildQ(Children)

(* C4, amended: totalQ equals the discount times the sum over the child
   beliefs of (child belief Q) x (sequence count), plus the returns added
   directly through changeTotalQValue since n was last 0. *)
C4_DiscountedChildSum ==
    DiscountDen * (actionNode.totalQValue_ - immediateQ)
        = discount * SumChildQ(Children)

\* Two children with sequences and nonzero Q, a discount below 1 and a
\* directly added return.
C4_Witness ==
    /\ discount < DiscountDen
    /\ immediateQ # 0
    /\ Cardinality({c \in Children :
          beliefs[c].qValue # 0 /\ beliefs[c].nParticles > 0}) = 2

(* C5: every visit count is >= 0 in every reachable state: each entry's
   visitCount, totalVisitCount_ and the action node's n (an update that
   would make one negative is refused and reported). *)
C5_VisitCountsNonNegative ==
    /\ \A e \in childMap_ : e.visitCount >= 0
    /\ totalVisitCount_ >= 0
    /\ actionNode.nParticles_ >= 0

(* C6: no back-propagation or mapping update call ends in an error, whatever
   the observation. *)
C6_NoCallFails ==
    last.err = "none"

(* C7: createOrGetChild(o) is get-or-create: with a child belief for o it
   returns that node with added = false and changes nothing; otherwise it
   creates exactly one child (a new live node, one more entry) and returns
   it with added = true, and a call with an equal observation then finds
   that node. *)
C7_GetOrCreate ==
    [][last'.op = "createOrGetChild"
       => LET prior == ChildFor(childMap_, last'.obs) IN
          IF prior # Null
          THEN /\ last'.ret = prior
               /\ ~last'.added
               /\ childMap_' = childMap_
               /\ beliefs' = beliefs
          ELSE /\ last'.added
               /\ last'.ret \notin Children
               /\ beliefs'[last'.ret].alive
               /\ Cardinality(childMap_') = Cardinality(childMap_) + 1
               /\ \A e \in childMap_ : e \in childMap_'
               /\ \A o \in Observations :
                    equals(o, last'.obs)
                      => ChildFor(childMap_', o) = last'.ret]_vars

\* A second call, with an equal observation that is another object, has
\* returned the node the first call created, next to another child.
C7_Witness ==
    /\ last.op = "createOrGetChild"
    /\ ~last.added
    /\ last.ret # Null
    /\ getNChildren(childMap_) = 2
    /\ \E e \in childMap_ : e.childNode = last.ret /\ e.key # last.obs

(* C8: the children are keyed by observation equality: the node
   createOrGetChild created for o is the one getBelief returns for every
   observation equal to o, getBelief returns null for an observation equal
   to no key, and two observations that are not equal never share a child
   belief node. *)
C8_KeyedByEquality ==
    /\ \A o1, o2 \in Observations :
         /\ equals(o1, o2)
              => getBelief(childMap_, o1) = getBelief(childMap_, o2)
         /\ (~equals(o1, o2) /\ getBelief(childMap_, o1) # Null)
              => getBelief(childMap_, o1) # getBelief(childMap_, o2)
    /\ \A o \in Observations :
         (\A e \in childMap_ : ~equals(e.key, o))
              => getBelief(childMap_, o) = Null
    /\ (last.op = "createOrGetChild" /\ last.added)
         => \A o \in Observations :
              equals(o, last.obs) => getBelief(childMap_, o) = last.ret

\* Two children under colliding hashes, and a lookup with an equal
\* observation that is not the key object has found the first.
C8_Witness ==
    /\ getNChildren(childMap_) = 2
    /\ \A e1, e2 \in childMap_ : hash(e1.key) = hash(e2.key)
    /\ last.op = "getBelief"
    /\ last.ret # Null
    /\ \E e \in childMap_ : e.childNode = last.ret /\ e.key # last.obs

\* The bins of a vector in the order of their first occurrence.
FirstOccurrences(seq) ==
    LET keep == {i \in 1..Len(seq) : \A j \in 1..(i - 1) : seq[j] # seq[i]}
    IN  [k \in 1..Cardinality(keep) |->
            seq[CHOOSE i \in keep : Cardinality({j \in keep : j <= i}) = k]]

(* C9: successive calls to getNextActionToTry return actions for the bins   *)
(* of the initial bin sequence in its FIFO order, each bin at most once:    *)
(* the k+1-th call returns an action of the k+1-th distinct bin, and every  *)
(* call after the last bin returns null.                                    *)
C9_FifoOnce ==
    [][lastAction'.op = "getNextActionToTry" =>
          LET order == FirstOccurrences(initialBinSequence)
              k == Len(tried)
          IN  IF k < Len(order)
              THEN /\ lastAction'.action # NullAction
                   /\ lastAction'.action.bin = order[k + 1]
                   /\ tried' = Append(tried, lastAction'.action)
              ELSE /\ lastAction'.action = NullAction
                   /\ tried' = tried]_vars

\* A sequence with a repeated bin has been tried to its end, and the call
\* after the last bin returned null.
C9_Witness ==
    /\ lastAction.op = "getNextActionToTry"
    /\ lastAction.action = NullAction
    /\ Len(tried) = NumberOfBins
    /\ Len(initialBinSequence) > Len(tried)
    /\ initialBinSequence[1] = initialBinSequence[Len(initialBinSequence)]

(* C10: two different actions that resolve to the same bin number share    *)
(* one mapping entry: getEntry and getActionNode give the same entry and   *)
(* child for both, the node createActionNode made for one is the other's,  *)
(* and a visit recorded through one shows in the other's statistics.       *)
C10_SharedEntry ==
    \A a1, a2 \in Actions :
        a1.bin = a2.bin =>
            /\ getEntry(a1) = getEntry(a2)
            /\ getActionNode(entries_, a1) = getActionNode(entries_, a2)
            /\ (lastAction.op = "createActionNode" /\ lastAction.action = a1)
                  => /\ getActionNode(entries_, a2) = lastAction.node
                     /\ getEntry(a2) = lastAction.entry
            /\ (lastAction.op = "updateValue" /\ lastAction.action = a1)
                  => /\ getEntry(a2) = lastAction.entry
                     /\ entries_[getEntry(a2)].visitCount_ = lastAction.visits

\* The node was created through one action of a bin and a visit recorded
\* through the other.
C10_Witness ==
    /\ lastAction.op = "updateValue"
    /\ lastAction.action.id = 1
    /\ lastAction.visits = MaxCount
    /\ \E b \in Bins :
          /\ b = lastAction.action.bin
          /\ entries_[b].childNode_ # Null
          /\ entries_[b].visitCount_ = MaxCount
          /\ \E b2 \in Bins : b2 # b /\ entries_[b2].visitCount_ > 0

(* C11: an entry that is illegal is never among the entries offered to a   *)
(* selection policy (getVisitedEntries, that is                            *)
(* getEntriesWithNonzeroVisitCount) of the continuous mapping.             *)
C11_IllegalNeverOffered ==
    \A key \in getVisitedEntries(entries) : entries[key].isLegal_

(* C12: an entry moves only forward: after every step an entry with visit  *)
(* count > 0 has a child action node, and an Explored entry (visits > 0)   *)
(* stays Explored until it is removed from the mapping.                    *)
C12_ForwardOnly ==
    [][/\ \A key \in DOMAIN entries' :
             entries'[key].visitCount_ > 0 => entries'[key].childNode # Null
       /\ \A key \in DOMAIN entries :
             entries[key].visitCount_ > 0 =>
                \/ key \notin DOMAIN entries'
                \/ entries'[key].visitCount_ > 0]_vars

\* One entry is Explored to the bound while another action node has been
\* created and pruned again.
C12_Witness ==
    /\ createdNodes = MaxNodes
    /\ nChildren = 1
    /\ \E key \in DOMAIN entries :
          /\ DOMAIN entries = {key}
          /\ entries[key].childNode # Null
          /\ entries[key].visitCount_ = MaxCount

(* C13: saving a discrete observation mapping and loading the text again   *)
(* reproduces the number of children, the total visit count, the visit     *)
(* count of each observation and the node id bound to each observation's   *)
(* child belief.                                                           *)
C13_SaveLoadRoundTrip ==
    [][os' # os =>
          /\ Cardinality(loaded'.childMap_) = Cardinality(childMap_)
          /\ loaded'.totalVisitCount_ = totalVisitCount_
          /\ \A e \in childMap_ :
                \E l \in loaded'.childMap_ :
                   /\ l.key.v = e.key.v
                   /\ l.visitCount = e.visitCount
                   /\ l.childNode # Null
                   /\ loaded'.setNode[l.childNode] = EarlierNodes + e.childNode
      ]_vars

\* A mapping with two visited children has been saved and loaded.
C13_Witness ==
    /\ Len(os) = 4
    /\ Cardinality(loaded.childMap_) = 2
    /\ loaded.totalVisitCount_ = MaxCount
    /\ \A l \in loaded.childMap_ : l.visitCount > 0

(* C14: loadChanges returns the change times in strictly increasing order  *)
(* for every changes file it reads, and each returned time has exactly the *)
(* ADD changes of its block stored for it.                                 *)
C14_SortedChangeTimes ==
    navLast.op = "loadChanges" =>
        /\ \A i, j \in 1..Len(navLast.changeTimes) :
              i < j => navLast.changeTimes[i] < navLast.changeTimes[j]
        /\ Len(navLast.changeTimes) = Len(file)
        /\ \A i \in 1..Len(file) :
              /\ file[i].time \in DOMAIN changes_
              /\ Len(changes_[file[i].time])
                    = Cardinality({k \in 1..Len(file[i].lines) :
                                      file[i].lines[k].operation = "ADD"})

(* C15: applying at time t a change that adds an obstacle over region R    *)
(* flags every stored state whose position lies inside R as Deleted,       *)
(* whatever its direction, and flags no state outside R.                   *)
C15_ObstacleFlagsStates ==
    navLast.op = "update" =>
        \A i \in 1..Len(changes_[navLast.time]) :
            LET change == changes_[navLast.time][i] IN
            change.type = "OBSTACLE" =>
                /\ \A st \in DOMAIN statePool :
                      contains(change.area, st) => "DELETED" \in statePool[st]
                /\ \A st \in navLast.flagged :
                      \E j \in 1..Len(changes_[navLast.time]) :
                          contains(changes_[navLast.time][j].area, st)

\* The time of the last update() had no changes when update() ran.
EmptyAt(time) == time \notin DOMAIN changes_ \/ changes_[time] = <<>>

(* C16: applying the empty change set is a no-op: update(t, pool) for a    *)
(* time t with no changes adds no area and flags no stored state, and the  *)
(* repair update that follows (updateSequenceCount with deltaNParticles =  *)
(* 0 and the child's Q-value unchanged) leaves the action node's n, totalQ *)
(* and meanQ and every observation visit count unchanged.                  *)
C16_EmptyChangeNoOp ==
    [][/\ (navLast'.op = "update" /\ EmptyAt(navLast'.time)) =>
              /\ UNCHANGED <<startAreas_, totalStartArea_, goalAreas_,
                             obstacles_, observationAreas_>>
              /\ statePool' = statePool
       /\ last'.op = "repairAfterEmptyChange" =>
              /\ actionNode'.nParticles_ = actionNode.nParticles_
              /\ actionNode'.totalQValue_ = actionNode.totalQValue_
              /\ actionNode'.meanQValue_ = actionNode.meanQValue_
              /\ childMap_' = childMap_
              /\ totalVisitCount_' = totalVisitCount_]_vars

\* A repair has run after update() for an empty time on an action node
\* that has particles, a total that is not zero and a child with
\* sequences and a Q-value that is not zero.
C16_Witness ==
    /\ navLast.op = "update"
    /\ changes_[navLast.time] = <<>>
    /\ navLast.flagged = {}
    /\ last.op = "repairAfterEmptyChange"
    /\ actionNode.nParticles_ > 0
    /\ actionNode.totalQValue_ # 0
    /\ LET b == beliefs[getChild(childMap_, last.obs)] IN
          SequenceCount(b) > 0 /\ b.qValue # 0

(* C17: the sampling methods return a non-null state on every call:        *)
(* sampleAnInitState returns a state inside one of the Start areas for     *)
(* every map that was loaded and every random draw (the constructor's own  *)
(* calls included), and sampleStateUniform returns a state inside the      *)
(* World area.                                                             *)
C17_SamplingNonNull ==
    /\ (navLast.op = "construct" /\ file.isOpen) => ~navLast.nullSample
    /\ navLast.op = "sampleAnInitState" =>
          /\ ~navLast.ret.isNull
          /\ \E id \in DOMAIN startAreas_ :
                contains(startAreas_[id], navLast.ret)
    /\ navLast.op = "sampleStateUniform" =>
          /\ ~navLast.ret.isNull
          /\ contains(mapArea_, navLast.ret)

\* The TypeNames of the map file format.
TypeNames ==
    {"World", "Start", "Observation", "Goal", "Obstacle", "Empty", "OOB"}

\* A map file that is missing or malformed: it cannot be opened, it has no
\* World line or more than one, or a line has an unknown TypeName.
Malformed(f) ==
    \/ ~f.isOpen
    \/ Cardinality({i \in DOMAIN f.lines : f.lines[i].type = "World"}) # 1
    \/ \E i \in DOMAIN f.lines : f.lines[i].type \notin TypeNames

(* C20: constructing the model with a missing or malformed map file (the   *)
(* file cannot be opened, no World line, more than one World line, or a    *)
(* line with an unknown TypeName) prints a message and exits with code 1.  *)
C20_MalformedMapExits ==
    (navLast.op = "construct" /\ Malformed(file)) =>
        navLast.outcome = "exit" /\ navLast.code = 1

\* A position inside the map and outside every obstacle.
Free(point) == contains(mapArea_, point) /\ ~isInside(obstacles_, point)

\* The position of interpolation step k of the last path, step 0 being
\* the position the path started from.
LastPathPoint(k) ==
    IF k = 0 THEN [x |-> navLast.state.x, y |-> navLast.state.y]
    ELSE PathPoint(navLast.state, navLast.action, timeStepLength_, k)

\* Step k is the first step of the last path whose position is in an
\* obstacle or out of the map, and no earlier step was in a goal.
StopsAt(k) ==
    /\ ~Free(LastPathPoint(k))
    /\ \A j \in 1..(k - 1) :
          Free(LastPathPoint(j)) /\ ~isInside(goalAreas_, LastPathPoint(j))

\* The reward of the last path up to step k when nothing is hit.
RewardUpTo(k) ==
    PathReward(PathModel, navLast.state, navLast.action,
               [scalar |-> k, x |-> LastPathPoint(k).x,
                y |-> LastPathPoint(k).y, hasCollision |-> FALSE,
                inGoal |-> FALSE])

(* C18: tryPath never returns a state inside an obstacle or outside the    *)
(* map when started from a free position inside the map: at the first      *)
(* interpolation step whose position is in an obstacle or out of bounds    *)
(* it stops, returns the position of the previous interpolation step, and  *)
(* the reward of the step includes -crashPenalty exactly once.             *)
C18_PathStaysFree ==
    (navLast.op = "tryPath" /\ Free(navLast.state)) =>
        LET result == navLast.result IN
        /\ Free(result.state)
        /\ result.hasCollision <=>
              \E k \in 1..Options.interpolationStepCount_ : StopsAt(k)
        /\ \A k \in 1..Options.interpolationStepCount_ :
              StopsAt(k) =>
                  /\ result.state.x = LastPathPoint(k - 1).x
                  /\ result.state.y = LastPathPoint(k - 1).y
                  /\ result.reward.halfPi = RewardUpTo(k - 1).halfPi
                  /\ result.reward.rational[1] * RewardUpTo(k - 1).rational[2]
                       = (RewardUpTo(k - 1).rational[1]
                            - Options.crashPenalty_
                                * RewardUpTo(k - 1).rational[2])
                         * result.reward.rational[2]

\* A path has moved and then hit the wall.
C18_Witness ==
    /\ navLast.op = "tryPath"
    /\ Free(navLast.state)
    /\ navLast.result.hasCollision
    /\ \E k \in 2..Options.interpolationStepCount_ :
          StopsAt(k) /\ isInside(obstacles_, LastPathPoint(k))
    /\ navLast.result.state.x # navLast.state.x

\* The position speed * timeStepLength_ along the heading of the state the
\* last path started from.
ClaimedEnd ==
    Plus(navLast.state,
         Vector2D(navLast.action.speed.whole * timeStepLength_,
                  navLast.state.direction))

(* C19: for tryPath with rotationalSpeed = 0 and no obstacle, goal or map  *)
(* boundary on the way, one step moves the position by speed times         *)
(* timeStepLength along the heading with no collision, and its reward is   *)
(* -(costPerUnitTime * timeStepLength) - (costPerUnitDistance * distance   *)
(* travelled).                                                             *)
C19_StraightStep ==
    (/\ navLast.op = "tryPath"
     /\ navLast.action.rotationalSpeed = 0
     /\ obstacles_ = <<>>
     /\ goalAreas_ = <<>>
     /\ contains(mapArea_, ClaimedEnd)) =>
        LET result == navLast.result
            distance == Abs(result.state.x - navLast.state.x)
                        + Abs(result.state.y - navLast.state.y)
        IN  /\ result.state.x = ClaimedEnd.x
            /\ result.state.y = ClaimedEnd.y
            /\ ~result.hasCollision
            /\ result.reward.halfPi = <<0, 1>>
            /\ result.reward.rational =
                  <<-(Options.costPerUnitTime_ * timeStepLength_)
                      - Options.costPerUnitDistance_ * distance, 1>>

(* C21: every map-file line whose TypeName is one of World, Start,         *)
(* Observation, Goal, Obstacle, Empty and OOB is accepted and applied      *)
(* without error: addArea completes normally for each of the area types.   *)
C21_EveryTypeAccepted ==
    (/\ navLast.op = "construct"
     /\ file.isOpen
     /\ \A i \in DOMAIN file.lines : file.lines[i].type \in TypeNames) =>
        ~navLast.nullAreas

\* A step of updateSequenceCount with deltaNParticles = 0 on an observation
\* that has a child belief.
RepairUpdateStep ==
    /\ last'.op = "updateSequenceCount"
    /\ last'.err = "none"
    /\ last'.delta = 0

\* n and the visit counts of the observation mapping are unchanged.
RepairKeepsCounts ==
    /\ actionNode'.nParticles_ = actionNode.nParticles_
    /\ childMap_' = childMap_
    /\ totalVisitCount_' = totalVisitCount_

\* totalQ changes by newSeq * gamma * (newChildQ - oldChildQ).
RepairMovesTotalQ ==
    LET c == ChildFor(childMap_, last'.obs) IN
    DiscountDen * actionNode'.totalQValue_
      = DiscountDen * actionNode.totalQValue_
          + SequenceCount(beliefs[c]) * discount
              * (beliefs'[c].qValue - beliefs[c].qValue)

(* C22, as claimed: updateSequenceCount called with deltaNParticles = 0    *)
(* leaves the action node's n and all visit counts of its observation      *)
(* mapping unchanged, and totalQ changes by exactly                        *)
(* newSeq * gamma * (newChildQ - oldChildQ).                               *)
C22_Original ==
    [][RepairUpdateStep => RepairKeepsCounts /\ RepairMovesTotalQ]_vars

(* C22, amended: updateSequenceCount called with deltaNParticles = 0       *)
(* leaves n and all visit counts unchanged; when n > 0, totalQ changes by  *)
(* exactly newSeq * gamma * (newChildQ - oldChildQ); when n <= 0, totalQ   *)
(* is reset to 0 and meanQ to minus infinity.                              *)
C22_RepairUpdate ==
    [][RepairUpdateStep =>
          /\ RepairKeepsCounts
          /\ actionNode.nParticles_ > 0 => RepairMovesTotalQ
          /\ actionNode.nParticles_ <= 0 =>
                /\ actionNode'.totalQValue_ = 0
                /\ actionNode'.meanQValue_ = NegInf]_vars

\* A repair update has changed the total of a node with particles through
\* a child with sequences whose Q-value changed, at a discount below 1.
C22_Witness ==
    /\ last.op = "updateSequenceCount"
    /\ last.err = "none"
    /\ last.delta = 0
    /\ discount < DiscountDen
    /\ actionNode.nParticles_ > 0
    /\ actionNode.totalQValue_ < 0
    /\ LET c == ChildFor(childMap_, last.obs) IN
          SequenceCount(beliefs[c]) > 0 /\ beliefs[c].qValue = 0

\* The changes with operation ADD among the change lines of a block, in the
\* order of the lines.
RECURSIVE AddChanges(_)
AddChanges(lines) ==
    IF lines = <<>> THEN <<>>
    ELSE IF lines[1].operation = "ADD"
    THEN <<Nav2DChange(lines[1])>> \o AddChanges(Tail(lines))
    ELSE AddChanges(Tail(lines))

(* C23: in loadChanges a non-ADD operation is skipped and is non-fatal: a  *)
(* block declaring n change lines of which k are not ADD stores exactly    *)
(* the n - k ADD changes for its time, in file order (a later block of the *)
(* same time replaces them), and parsing continues correctly with the next *)
(* block header: the returned times are the times of the headers.          *)
C23_SkipsNonAdd ==
    navLast.op = "loadChanges" =>
        /\ navLast.changeTimes = [i \in DOMAIN file |-> file[i].time]
        /\ DOMAIN changes_ = {file[i].time : i \in DOMAIN file}
        /\ \A i \in DOMAIN file :
              (\A j \in DOMAIN file : j > i => file[j].time # file[i].time)
                  => changes_[file[i].time] = AddChanges(file[i].lines)

\* A file was loaded whose first block has a skipped line before an ADD
\* line and is followed by a block of a later time with an ADD line.
C23_Witness ==
    /\ navLast.op = "loadChanges"
    /\ Len(file) = 2
    /\ file[1].time < file[2].time
    /\ Len(file[1].lines) = 2
    /\ file[1].lines[1].operation = "REMOVE"
    /\ file[1].lines[2].operation = "ADD"
    /\ Len(changes_[file[1].time]) = 1
    /\ Len(changes_[file[2].time]) = 1

\* The flag of the claim for a change, by its type alone.
FlagOfType(type) ==
    IF type = "OBSERVATION" THEN "OBSERVATION_BEFORE" ELSE "DELETED"

\* The stored state is one that the box query of the change visits.
Visits(change, st) ==
    contains(change.area, st) /\ st.direction = QueryDirection

(* C24: in update the flag set on stored states depends only on the type   *)
(* of the change being applied: a change of type Observation flags the     *)
(* states its query visits in its region with ObservationBefore and not    *)
(* Deleted, every change of another type flags them with Deleted, and an   *)
(* Observation change earlier in the same batch does not alter the flag    *)
(* used by later changes.                                                  *)
C24_FlagByTypeAlone ==
    [][navLast'.op = "update" =>
          LET batch == changes_'[navLast'.time] IN
          \A st \in DOMAIN statePool :
              statePool'[st] =
                  statePool[st]
                  \cup {FlagOfType(batch[i].type) :
                          i \in {j \in DOMAIN batch : Visits(batch[j], st)}}
      ]_vars

\* A batch of an Observation change followed by an Obstacle change was
\* applied: a state has ObservationBefore alone, another has Deleted.
C24_Witness ==
    /\ navLast.op = "update"
    /\ Len(changes_[navLast.time]) = 2
    /\ changes_[navLast.time][1].type = "OBSERVATION"
    /\ changes_[navLast.time][2].type = "OBSTACLE"
    /\ \E st \in navLast.flagged : statePool[st] = {"OBSERVATION_BEFORE"}
    /\ \E st \in navLast.flagged : statePool[st] = {"DELETED"}

(* C25: after any sequence of createBelief and updateVisitCount calls      *)
(* every entry of the discrete observation mapping has a non-null child    *)
(* belief node, and getNChildren equals the number of observations for     *)
(* which getBelief returns a non-null node.                                *)
C25_EveryEntryHasChild ==
    /\ \A e \in childMap_ : e.childNode # Null
    /\ getNChildren(childMap_)
         = Cardinality({o \in CanonicalObservations :
                            getBelief(childMap_, o) # Null})

(* C26: createBelief(o) returns the live belief node that the mapping      *)
(* stores for o when it returns, and getBelief(o) then returns that same   *)
(* node, also when an entry for an equal observation already existed.      *)
C26_CreateBeliefReturnsStored ==
    last.op = "createBelief" =>
        /\ beliefs[last.ret].alive
        /\ getBelief(childMap_, last.obs) = last.ret

(* C27: getTotalVisitCount() equals the sum of getVisitCount over all      *)
(* entries of the mapping after any sequence of createBelief and           *)
(* updateVisitCount calls, and the mapping read back by                    *)
(* loadObservationMapping from a saved mapping has the same property.      *)
C27_TotalIsSumOfCounts ==
    /\ totalVisitCount_ = SumVisitCounts(childMap_)
    /\ loaded.totalVisitCount_ = SumVisitCounts(loaded.childMap_)

\* A mapping of two entries with different counts, one of them negative
\* and a non-zero total, was saved and loaded.
C27_Witness ==
    /\ os # <<>>
    /\ Cardinality(loaded.childMap_) = 2
    /\ \E e \in loaded.childMap_ : e.visitCount < 0
    /\ \E e \in loaded.childMap_ : e.visitCount > 1
    /\ loaded.totalVisitCount_ # 0

\* The sums of the arguments over a sequence of changeTotalQValue calls.
RECURSIVE SumDeltaN(_)
SumDeltaN(cs) ==
    IF cs = <<>> THEN 0
    ELSE cs[Len(cs)].deltaNParticles + SumDeltaN(SubSeq(cs, 1, Len(cs) - 1))

RECURSIVE SumDeltaQ(_)
SumDeltaQ(cs) ==
    IF cs = <<>> THEN 0
    ELSE cs[Len(cs)].deltaQ + SumDeltaQ(SubSeq(cs, 1, Len(cs) - 1))

\* The number of calls after which the sum of the dn_i was last <= 0
\* (0: on the fresh node).
LastEmpty(cs) ==
    CHOOSE k \in 0..Len(cs) :
        /\ SumDeltaN(SubSeq(cs, 1, k)) <= 0
        /\ \A j \in (k + 1)..Len(cs) : SumDeltaN(SubSeq(cs, 1, j)) > 0

(* C28, as claimed: after any sequence of changeTotalQValue calls          *)
(* (dq_i, dn_i) on a fresh node n equals the sum of the dn_i and, whenever *)
(* n > 0, totalQ equals the sum of all dq_i, whatever the order.           *)
C28_Original ==
    /\ actionNode.nParticles_ = SumDeltaN(calls)
    /\ actionNode.nParticles_ > 0
          => actionNode.totalQValue_ = SumDeltaQ(calls)

(* C28, amended: n equals the sum of the dn_i; when n > 0, totalQ equals   *)
(* the sum of the dq_i of the calls made after the sum of the dn_i was     *)
(* last <= 0; when n <= 0, totalQ is 0.                                    *)
C28_AccumulatesSinceEmpty ==
    /\ actionNode.nParticles_ = SumDeltaN(calls)
    /\ actionNode.totalQValue_
         = IF actionNode.nParticles_ > 0
           THEN SumDeltaQ(SubSeq(calls, LastEmpty(calls) + 1, Len(calls)))
           ELSE 0

\* n came back above 0 after calls that left it at 0 or below, and totalQ
\* is neither 0 nor the sum of all dq_i.
C28_Witness ==
    /\ actionNode.nParticles_ > 0
    /\ LastEmpty(calls) > 0
    /\ actionNode.totalQValue_ # 0
    /\ actionNode.totalQValue_ # SumDeltaQ(calls)

(* C29: the noise on the rotational speed depends only on the rotational   *)
(* error settings: applyRotationalError gives the same result for the same *)
(* draw of the generator on every model that differs from this one only in *)
(* speedErrorSD_, whatever the rotationErrorType_; and applySpeedError     *)
(* never returns a negative speed for a non-negative commanded speed.      *)
C29_RotationNoiseOwnSettings ==
    /\ navLast.op = "applyRotationalError" =>
          \A sd \in ErrorSDs :
              applyRotationalError([ErrorSettings EXCEPT !.speedErrorSD_ = sd],
                                   navLast.speed, navLast.z)
                = navLast.result
    /\ navLast.op = "applySpeedError" => navLast.result >= 0

\* Step k is the first step of the last path whose position is inside a
\* goal area, and nothing was hit up to it.
ReachesGoalAt(k) ==
    /\ Free(LastPathPoint(k))
    /\ isInside(goalAreas_, LastPathPoint(k))
    /\ \A j \in 1..(k - 1) :
          Free(LastPathPoint(j)) /\ ~isInside(goalAreas_, LastPathPoint(j))

PathSteps == 1..Options.interpolationStepCount_

\* The last path stopped on a collision / at a point inside a goal area.
Crashed == \E k \in PathSteps : StopsAt(k)

InGoal == \E k \in PathSteps : ReachesGoalAt(k)

\* The interpolation step whose position the last path ended at.
EndStep ==
    IF Crashed THEN (CHOOSE k \in PathSteps : StopsAt(k)) - 1
    ELSE IF InGoal THEN CHOOSE k \in PathSteps : ReachesGoalAt(k)
    ELSE Options.interpolationStepCount_

\* The reward of the last path is the reward of its movement plus `extra`.
RewardIncludes(extra) ==
    LET reward == navLast.result.reward
        moved == RewardUpTo(EndStep)
    IN  /\ reward.halfPi = moved.halfPi
        /\ reward.rational[1] * moved.rational[2]
             = (moved.rational[1] + extra * moved.rational[2])
               * reward.rational[2]

\* The reward of the last step includes +goalReward exactly when it stopped
\* at an interpolation point inside a goal area, -crashPenalty exactly when
\* it stopped on a collision, and never both.
GoalOrCrash ==
    /\ ~(Crashed /\ InGoal)
    /\ navLast.result.inGoal <=> InGoal
    /\ navLast.result.hasCollision <=> Crashed
    /\ RewardIncludes((IF InGoal THEN Options.goalReward_ ELSE 0)
                        - (IF Crashed THEN Options.crashPenalty_ ELSE 0))

(* C30, as claimed: in one step the goal reward and the crash penalty are  *)
(* mutually exclusive (the reward includes +goalReward exactly when the    *)
(* step stopped at an interpolation point inside a goal area, and          *)
(* -crashPenalty exactly when it stopped on a collision), and generateStep *)
(* reports isTerminal = true exactly when the reward includes the goal     *)
(* reward.                                                                 *)
C30_Original ==
    navLast.op = "generateStep" =>
        /\ GoalOrCrash
        /\ navLast.result.isTerminal <=> InGoal

(* C30, amended: the goal reward and the crash penalty are mutually        *)
(* exclusive as claimed, and generateStep reports isTerminal = true        *)
(* exactly when the resulting position is inside a goal area: when the     *)
(* reward includes the goal reward, or when the step started inside a goal *)
(* area and collided at its first interpolation point.                     *)
C30_TerminalByPosition ==
    navLast.op = "generateStep" =>
        /\ GoalOrCrash
        /\ navLast.result.isTerminal
             <=> \/ InGoal
                 \/ StopsAt(1) /\ isInside(goalAreas_, LastPathPoint(0))

\* A step started inside a goal area, collided at once and is terminal
\* with the crash penalty and without the goal reward.
C30_Witness ==
    /\ navLast.op = "generateStep"
    /\ navLast.result.isTerminal
    /\ navLast.result.hasCollision
    /\ ~navLast.result.inGoal
    /\ RewardIncludes(-Options.crashPenalty_)

====
